---- MODULE Spec2Model ----
(***************************************************************************)
(* Model of the Academic-Nexus portal utilities:                           *)
(*   - AnalyticsTracker (src/utils/analytics.js): event queue, flushes,    *)
(*     persisted backup, session identifier;                               *)
(*   - DownloadManager (src/utils/download.js), StorageManager download    *)
(*     history (src/utils/storage.js) and ExamPortal.trackDownload         *)
(*     (src/unnamed/part_001);                                             *)
(*   - SearchEngine (src/unnamed/part_002);                                *)
(*   - FilterManager (src/utils/analytics.js): selection, URL, filtering;  *)
(*   - StorageManager (src/utils/storage.js) over window.localStorage,     *)
(*     with its recent searches and favourites;                            *)
(*   - ExamPortal (src/unnamed/part_001): init, filter listeners and       *)
(*     favourites of the controller.                                       *)
(* Every subsystem has its own specification over the shared variables.    *)
(***************************************************************************)
EXTENDS Integers, Sequences, FiniteSets, TLC

VARIABLES
    \* ---- AnalyticsTracker ----
    enabled,        \* this.enabled
    queue,          \* this.queue : sequence of event identifiers
    persisted,      \* localStorage["analytics_queue"] (NoItem when absent)
    inflight,       \* asynchronous sends awaiting the fetch response
    delivered,      \* events of a send the endpoint has confirmed
    discarded,      \* events thrown away on purpose by setEnabled(false)
    nextEvent,      \* identifier of the next event handed to queueEvent
    sessionId,      \* localStorage["analytics_session_id"]
    sessionExpiry,  \* localStorage["analytics_session_expiry"]
    userId,         \* localStorage["user_id"]
    now,            \* Date.now()
    ticks,          \* number of clock advances so far
    lastOp,         \* the operation that produced the current state
    \* ---- download histories ----
    dmHistory,      \* localStorage["downloadHistory"] (DownloadManager), newest first
    smHistory,      \* value of "examportal_download_history" (StorageManager)
    epHistory,      \* ExamPortal.downloadHistory (in memory)
    dropped,        \* per history, the newest time stamp the cap has dropped so far
    stamp,          \* per history, the time stamp of the latest entry recorded in it
    calls,          \* downloadPDF calls and paper downloads made so far
    dl,             \* the downloadPDF call in progress and its counters
    dlast,          \* the download operation that produced the current state
    zipCall,          \* the downloadMultipleAsZip call in progress and its record
    \* ---- SearchEngine ----
    searchIndex,    \* this.searchIndex
    fullResources,  \* this.fullResources
    isIndexed,      \* this.isIndexed
    scall,          \* the search call whose result the caller holds, with its result
    recentSearches, \* value of "examportal_recent_searches" (StorageManager.addSearch)
    searchHistory,  \* localStorage["searchHistory"] (SearchEngine.saveSearch)
    rcall,          \* the addSearch or saveSearch call that produced the current state
    \* ---- FilterManager ----
    activeFilters,  \* this.activeFilters
    url,            \* window.location.search, without its leading '?'
    fcall,          \* the FilterManager operation that produced the current state
    filterCallbacks,\* this.filterCallbacks, in registration order
    notice,         \* what the last notifyListeners call did
    portal,         \* the ExamPortal controller: whether init has run, and the page
    \* ---- StorageManager ----
    ls,             \* window.localStorage: its entries in the order of key(i)
    clock,          \* Date.now() as the StorageManager reads it
    written,        \* per key, the value and expiry of the last successful set
    sop,            \* the StorageManager operation that produced the current state
    favorites,      \* ExamPortal.favorites (in memory)
    fop             \* the favourites operation that produced the current state

analyticsVars == <<enabled, queue, persisted, inflight, delivered, discarded,
                   nextEvent, sessionId, sessionExpiry, userId, now, ticks, lastOp>>

downloadVars == <<dmHistory, smHistory, epHistory, dropped, stamp, calls, dl, dlast,
                  zipCall>>

searchVars == <<searchIndex, fullResources, isIndexed, scall, recentSearches,
                searchHistory, rcall>>

filterVars == <<activeFilters, url, fcall, filterCallbacks, notice, portal>>

storageVars == <<ls, clock, written, sop, favorites, fop>>

vars == <<analyticsVars, downloadVars, searchVars, filterVars, storageVars>>

\* ------------------------------------------------------------------ bounds
MaxEvents == 3       \* events handed to queueEvent in one behaviour
MaxInFlight == 2     \* asynchronous sends awaiting their response at once
NumRand == 2         \* distinct outcomes of Math.random() in generateId
MaxTicks == 3        \* clock advances in one behaviour
MaxDownloads == 1    \* downloadPDF calls in one behaviour
MaxPapers == 1       \* paper or textbook downloads in one behaviour
MaxQueryLen == 4     \* characters of a search query
MaxIndexed == 2      \* resources handed to indexResources
MaxListed == 3       \* resources handed to FilterManager.applyFilters
MaxTags == 2         \* tags selected at once
MaxClock == 2        \* clock advances seen by the StorageManager
MaxFiles == 2        \* files handed to downloadMultipleAsZip
MaxSearches == 3     \* addSearch and saveSearch calls in one behaviour
MaxListeners == 2    \* onFilterChange calls made by other code than the controller
MaxFavorites == 2    \* resources whose favourite button is used

\* ------------------------------------------------------- program constants
FlushThreshold == 20
MaxRetries == 3
DmHistoryCap == 1000
SmHistoryCap == 100
EpHistoryCap == 100
SearchCap == 50
SessionTTL == 4 * 60 * 60 * 1000

\* localStorage.getItem(key): an absent key reads as null
Absent(v0) == [has |-> FALSE, val |-> v0]
Stored(v) == [has |-> TRUE, val |-> v]

\* ------------------------------------------------------------------ helpers
Range(s) == { s[i] : i \in 1..Len(s) }

\* identifiers of the events a previous page left in storage end at EventBase
EventBase == FlushThreshold - 2
\* the queue a reload finds: nothing, or a queue saved two short of the auto-flush size
PreloadSizes == {0, EventBase}
Preloaded(n) == [i \in 1..n |-> EventBase - n + i]

NoOp == [op |-> "init", batch |-> <<>>, during |-> <<>>, overlap |-> FALSE,
         cleared |-> FALSE, before |-> 0, accepted |-> FALSE,
         ret |-> <<>>, prevId |-> Absent(<<>>), prevExpiry |-> Absent(0), at |-> 0]

Op(name) == [NoOp EXCEPT !.op = name]

\* ---------------------------------------------------------- session / ids
Rands == 0..(NumRand - 1)

\* generateId: "id_" + Date.now() + "_" + Math.random().toString(36).substr(2, 9)
generateId(r) == <<now, r>>

\* getSessionId, line 271: `!expiry || Date.now() > parseInt(expiry)`
SessionExpiredEarly == ~sessionExpiry.has \/ now >= sessionExpiry.val
SessionExpired == ~sessionExpiry.has \/ now > sessionExpiry.val

\* getSessionId: the identifier it returns
getSessionIdResult(r) ==
    IF ~sessionId.has THEN generateId(r)
    ELSE IF SessionExpired THEN generateId(r)
    ELSE sessionId.val

\* getSessionId: the expiry it leaves in storage
getSessionIdExpirySliding == Stored(now + SessionTTL)
getSessionIdExpiry ==
    IF ~sessionId.has THEN Stored(now + SessionTTL)
    ELSE IF SessionExpired THEN Stored(now + SessionTTL)
    ELSE sessionExpiry

\* getUserId: creates the anonymous identifier on first use
getUserIdResult(r) == IF ~userId.has THEN <<"anonymous", generateId(r)>> ELSE userId.val

\* the storage effect of one getSessionId() call followed by one getUserId() call
StampIds(r1, r2) ==
    /\ sessionId' = Stored(getSessionIdResult(r1))
    /\ sessionExpiry' = getSessionIdExpiry
    /\ userId' = Stored(getUserIdResult(r2))

SessionOp(name, r1) ==
    [Op(name) EXCEPT !.ret = getSessionIdResult(r1), !.prevId = sessionId,
                     !.prevExpiry = sessionExpiry, !.at = now]

\* ------------------------------------------------------------- saveQueue
\* localStorage.setItem("analytics_queue", JSON.stringify(this.queue)): the events are
\* plain data, the stored text parses back to the same list (the write is taken to
\* succeed: a full storage is the subject of StorageManager.set, not of the tracker)
saveQueue(q) == Stored(q)

\* queueEvent, line 140: `this.queue.length >= 20`
AutoFlushLate(q) == Len(q) > FlushThreshold
AutoFlushDue(q) == Len(q) >= FlushThreshold

\* sendEvents, line 188: `this.queue = [...events, ...this.queue]`
RequeueBehind(events, q) == q \o events
RequeueNothing(events, q) == q
Requeue(events, q) == events \o q

\* loadQueue: `if (saved) this.queue = JSON.parse(saved)`, else the [] of the constructor
loadQueue(saved) == IF saved.has THEN saved.val ELSE <<>>

\* ---------------------------------------------------------- AnalyticsTracker
\* ghost fields of the sends in flight: events enqueued meanwhile, overlapping flushes,
\* a setEnabled(false) meanwhile
NoteEnqueued(e) == { [f EXCEPT !.during = Append(@, e)] : f \in inflight }
NoteOverlap(fs) == { [f EXCEPT !.overlap = TRUE] : f \in fs }
NoteCleared(fs) == { [f EXCEPT !.cleared = TRUE] : f \in fs }

NewFlight(batch) == [batch |-> batch, during |-> <<>>, overlap |-> inflight # {},
                     cleared |-> FALSE]

InFlightEvents == UNION { Range(f.batch) : f \in inflight }

AInit ==
    /\ enabled = TRUE
    /\ \E n \in PreloadSizes :
          /\ persisted = (IF n = 0 THEN Absent(<<>>) ELSE Stored(Preloaded(n)))
          /\ queue = loadQueue(persisted)
    /\ nextEvent = EventBase + 1
    /\ inflight = {}
    /\ delivered = {}
    /\ discarded = {}
    /\ now = 0
    /\ ticks = 0
    /\ lastOp = NoOp

\* a first visit: no identifier in storage yet
FreshIds ==
    /\ sessionId = Absent(<<>>)
    /\ sessionExpiry = Absent(0)
    /\ userId = Absent(<<>>)

\* a returning visitor: the identifiers an earlier page stored, the session still valid
ReturningIds ==
    /\ sessionId = Stored(<<0, 0>>)
    /\ sessionExpiry = Stored(0 + SessionTTL)
    /\ userId = Stored(<<"anonymous", <<0, 0>>>>)

\* queueEvent(event) while disabled: returns false
QueueEventDisabled ==
    /\ UNCHANGED <<downloadVars, searchVars, filterVars, storageVars>>
    /\ ~enabled
    /\ lastOp' = [Op("queueEvent") EXCEPT !.before = Len(queue)]
    /\ UNCHANGED <<enabled, queue, persisted, inflight, delivered, discarded,
                   nextEvent, sessionId, sessionExpiry, userId, now, ticks>>

\* queueEvent(event) while enabled: stamp, push, saveQueue, auto-flush at 20
QueueEvent ==
    /\ UNCHANGED <<downloadVars, searchVars, filterVars, storageVars>>
    /\ enabled
    /\ nextEvent <= EventBase + MaxEvents
    /\ \E r1, r2 \in Rands :
          /\ StampIds(r1, r2)
          /\ lastOp' = [SessionOp("queueEvent", r1) EXCEPT !.before = Len(queue),
                                                         !.accepted = TRUE]
    /\ persisted' = saveQueue(Append(queue, nextEvent))
    /\ LET e == nextEvent
           pushed == Append(queue, e)
       IN  /\ nextEvent' = e + 1
           /\ IF AutoFlushDue(pushed)
              THEN \* flushQueue() runs up to its first await inside this call
                   /\ Cardinality(inflight) < MaxInFlight
                   /\ queue' = <<>>
                   /\ inflight' = NoteOverlap(NoteEnqueued(e)) \cup {NewFlight(pushed)}
              ELSE /\ queue' = pushed
                   /\ inflight' = NoteEnqueued(e)
    /\ UNCHANGED <<enabled, delivered, discarded, now, ticks>>

\* flushQueue() from the 30 s timer, up to the await of fetch
FlushStart ==
    /\ UNCHANGED <<downloadVars, searchVars, filterVars, storageVars>>
    /\ ~(Len(queue) = 0 \/ ~enabled)
    /\ Cardinality(inflight) < MaxInFlight
    /\ inflight' = NoteOverlap(inflight) \cup {NewFlight(queue)}
    /\ queue' = <<>>
    /\ lastOp' = [Op("flushStart") EXCEPT !.batch = queue]
    /\ UNCHANGED <<enabled, persisted, delivered, discarded, nextEvent,
                   sessionId, sessionExpiry, userId, now, ticks>>

\* sendEvents: the response is OK
SendSuccess(f) ==
    /\ UNCHANGED <<downloadVars, searchVars, filterVars, storageVars>>
    /\ inflight' = inflight \ {f}
    /\ persisted' = Absent(<<>>)
    /\ delivered' = delivered \cup Range(f.batch)
    /\ lastOp' = [Op("sendSuccess") EXCEPT !.batch = f.batch, !.during = f.during,
                     !.overlap = f.overlap, !.cleared = f.cleared, !.before = Len(queue)]
    /\ UNCHANGED <<enabled, queue, discarded, nextEvent,
                   sessionId, sessionExpiry, userId, now, ticks>>

\* sendEvents: fetch rejects or the response is not OK
SendFail(f) ==
    /\ UNCHANGED <<downloadVars, searchVars, filterVars, storageVars>>
    /\ inflight' = inflight \ {f}
    /\ queue' = Requeue(f.batch, queue)
    /\ persisted' = saveQueue(queue')
    /\ lastOp' = [Op("sendFail") EXCEPT !.batch = f.batch, !.during = f.during,
                     !.overlap = f.overlap, !.cleared = f.cleared, !.before = Len(queue)]
    /\ UNCHANGED <<enabled, delivered, discarded, nextEvent,
                   sessionId, sessionExpiry, userId, now, ticks>>

\* beforeunload: flushQueue(true) with sendEventsSync, which answers at once
PageUnload(ok) ==
    /\ UNCHANGED <<downloadVars, searchVars, filterVars, storageVars>>
    /\ ~(Len(queue) = 0 \/ ~enabled)
    /\ IF ok
       THEN /\ queue' = <<>>
            /\ persisted' = Absent(<<>>)
            /\ delivered' = delivered \cup Range(queue)
       ELSE /\ queue' = queue
            /\ persisted' = saveQueue(queue')
            /\ delivered' = delivered
    /\ inflight' = NoteOverlap(inflight)
    /\ lastOp' = [Op("flushSync") EXCEPT !.batch = queue, !.accepted = ok]
    /\ UNCHANGED <<enabled, discarded, nextEvent,
                   sessionId, sessionExpiry, userId, now, ticks>>

\* setEnabled(enabled)
SetEnabled(b) ==
    /\ UNCHANGED <<downloadVars, searchVars, filterVars, storageVars>>
    /\ enabled' = b
    /\ IF ~b
       THEN /\ queue' = <<>>
            /\ persisted' = Absent(<<>>)
            /\ discarded' = discarded \cup Range(queue) \cup Range(loadQueue(persisted))
                               \cup InFlightEvents
            /\ inflight' = NoteCleared(inflight)
       ELSE UNCHANGED <<queue, persisted, discarded, inflight>>
    /\ lastOp' = [Op("setEnabled") EXCEPT !.before = Len(queue), !.accepted = b]
    /\ UNCHANGED <<delivered, nextEvent, sessionId, sessionExpiry, userId, now, ticks>>

\* a page load: the constructor of a new tracker; the old page's sends are gone
Reload ==
    /\ UNCHANGED <<downloadVars, searchVars, filterVars, storageVars>>
    /\ enabled' = TRUE
    /\ queue' = loadQueue(persisted)
    /\ inflight' = {}
    /\ lastOp' = [Op("reload") EXCEPT !.before = Len(queue)]
    /\ UNCHANGED <<persisted, delivered, discarded, nextEvent,
                   sessionId, sessionExpiry, userId, now, ticks>>

\* getSessionId() called on its own
GetSessionId ==
    /\ UNCHANGED <<downloadVars, searchVars, filterVars, storageVars>>
    /\ \E r1 \in Rands :
          /\ sessionId' = Stored(getSessionIdResult(r1))
          /\ sessionExpiry' = getSessionIdExpiry
          /\ lastOp' = SessionOp("getSessionId", r1)
    /\ UNCHANGED <<enabled, queue, persisted, inflight, delivered, discarded,
                   nextEvent, userId, now, ticks>>

\* getStatus(): reads the fields, calls getSessionId() and getUserId()
GetStatus ==
    /\ UNCHANGED <<downloadVars, searchVars, filterVars, storageVars>>
    /\ \E r1, r2 \in Rands :
          /\ StampIds(r1, r2)
          /\ lastOp' = [SessionOp("getStatus", r1) EXCEPT !.before = Len(queue)]
    /\ UNCHANGED <<enabled, queue, persisted, inflight, delivered, discarded,
                   nextEvent, now, ticks>>

\* the clock advances: by a millisecond, or by the length of a session
Tick(d) ==
    /\ UNCHANGED <<downloadVars, searchVars, filterVars, storageVars>>
    /\ ticks < MaxTicks
    /\ ticks' = ticks + 1
    /\ now' = now + d
    /\ lastOp' = Op("tick")
    /\ UNCHANGED <<enabled, queue, persisted, inflight, delivered, discarded,
                   nextEvent, sessionId, sessionExpiry, userId>>

\* ======================================================================
\* DownloadManager, StorageManager download history, ExamPortal.trackDownload
\* ======================================================================
\* the first n elements of s (`downloads.length = cap`, `slice(0, cap)`)
KeepOldest(s, cap) == IF Len(s) > cap THEN SubSeq(s, Len(s) - cap + 1, Len(s)) ELSE s
Truncate(s, cap) == IF Len(s) > cap THEN SubSeq(s, 1, cap) ELSE s

\* `history.unshift(entry)`
PushBack(entry, s) == Append(s, entry)
Unshift(entry, s) == <<entry>> \o s

\* downloadPDF, line 45: `retryCount < this.maxRetries`
CanRetryOnceMore(retryCount) == retryCount <= MaxRetries
CanRetry(retryCount) == retryCount < MaxRetries

\* DownloadManager.trackDownload: unshift, cap at 1000, setItem
dmRecord(entry, s) == Truncate(Unshift(entry, s), DmHistoryCap)
\* StorageManager.addToDownloadHistory: get, unshift, cap at 100, set
smRecord(entry, s) == Truncate(Unshift(entry, s), SmHistoryCap)
\* ExamPortal.trackDownload: unshift, slice(0, 100)
epRecord(entry, s) == Truncate(Unshift(entry, s), EpHistoryCap)

\* the newest stamp among the entries that `after` no longer holds
MaxOf(S) == IF S = {} THEN 0 ELSE CHOOSE x \in S : \A y \in S : y <= x
NewestDropped(old, entry, after, sofar) ==
    MaxOf({sofar} \cup ((Range(old) \cup {entry}) \ Range(after)))

\* a history an earlier page left in storage: n entries, newest first
StoredHistory(n) == [i \in 1..n |-> n + 1 - i]

IdleDownload == [active |-> FALSE, showProgress |-> FALSE, callbacks |-> FALSE,
                 retryCount |-> 0, attempts |-> 0, failures |-> 0, clicks |-> 0,
                 prepends |-> 0, completes |-> 0, errors |-> 0, result |-> "none"]

NoDownloadOp == [op |-> "init", failAt |-> "none", before |-> <<>>, entry |-> 0]

\* downloadMultipleAsZip: the files handed in, the loop's index, where the call stands
\* ("downloading": awaiting downloadPDF, "pausing": awaiting the 500 ms timer), the
\* results pushed so far, the count the closing notification shows, and the record of
\* what happened in the order it happened
IdleBatch == [active |-> FALSE, files |-> <<>>, index |-> 0, phase |-> "idle",
              results |-> <<>>, shown |-> 0, log |-> <<>>]
Event(kind, file) == [ev |-> kind, file |-> file]
\* an attempt of downloadPDF made for the call goes into its record
NoteAttempt(b) ==
    IF b.active THEN [b EXCEPT !.log = Append(@, Event("attempt", b.files[b.index]))]
    ELSE b

\* the steps of one downloadPDF attempt at which an exception can be raised
FailPoints == {"progress", "click", "history", "analytics", "complete"}
\* the attempt reached link.click() without an exception
Clicked(failAt) == failAt \notin {"progress", "click"}
\* trackDownload wrote the history (setItem returned)
Wrote(failAt) == failAt \notin {"progress", "click", "history"}
\* onComplete was invoked
Completed(failAt) == failAt \in {"complete", "none"}

DInit ==
    /\ \E n \in {0, DmHistoryCap} : dmHistory = StoredHistory(n)
    /\ \E n \in {0, SmHistoryCap} : smHistory = StoredHistory(n)
    /\ epHistory = smHistory       \* constructor: storage.getDownloadHistory()
    /\ dropped = [dm |-> 0, sm |-> 0, ep |-> 0]
    /\ stamp = [dm |-> Len(dmHistory), sm |-> Len(smHistory), ep |-> Len(epHistory)]
    /\ calls = [pdf |-> 0, paper |-> 0]
    /\ dl = IdleDownload
    /\ dlast = NoDownloadOp
    /\ zipCall = IdleBatch

\* downloadPDF(url, filename, options) is called: handleDownload passes showProgress
\* and the callbacks, downloadMultipleAsZip passes neither
StartDownload(showProgress, callbacks) ==
    /\ ~dl.active
    /\ calls.pdf < MaxDownloads
    /\ calls' = [calls EXCEPT !.pdf = @ + 1]
    /\ dl' = [IdleDownload EXCEPT !.active = TRUE, !.showProgress = showProgress,
                                  !.callbacks = callbacks]
    /\ dlast' = [NoDownloadOp EXCEPT !.op = "start"]
    /\ UNCHANGED <<dmHistory, smHistory, epHistory, dropped, stamp, zipCall>>
    /\ UNCHANGED <<analyticsVars, searchVars, filterVars, storageVars>>

\* one run of the try block of downloadPDF and, on an exception, of its catch block;
\* failAt is the step that throws ("none": no step does), stored tells whether the
\* onComplete callback got its StorageManager.addToDownloadHistory write through
Attempt(failAt, stored) ==
    /\ dl.active
    /\ failAt = "progress" => dl.showProgress
    /\ failAt = "complete" => dl.callbacks
    /\ stored => (dl.callbacks /\ Completed(failAt))
    /\ stamp' = [stamp EXCEPT !.dm = @ + (IF Wrote(failAt) THEN 1 ELSE 0),
                              !.sm = @ + (IF stored THEN 1 ELSE 0)]
    /\ dmHistory' = IF Wrote(failAt) THEN dmRecord(stamp'.dm, dmHistory) ELSE dmHistory
    /\ smHistory' = IF stored THEN smRecord(stamp'.sm, smHistory) ELSE smHistory
    /\ dropped' = [dropped EXCEPT
                     !.dm = NewestDropped(dmHistory, stamp'.dm, dmHistory', @),
                     !.sm = NewestDropped(smHistory, stamp'.sm, smHistory', @)]
    /\ LET retry == failAt # "none" /\ CanRetry(dl.retryCount)
           ended == [dl EXCEPT
                !.attempts = @ + 1,
                !.failures = @ + (IF failAt # "none" THEN 1 ELSE 0),
                !.clicks = @ + (IF Clicked(failAt) THEN 1 ELSE 0),
                !.prepends = @ + (IF Wrote(failAt) THEN 1 ELSE 0),
                !.completes = @ + (IF dl.callbacks /\ Completed(failAt) THEN 1 ELSE 0)]
       IN  dl' = IF failAt = "none"
                 THEN [ended EXCEPT !.active = FALSE, !.result = "ok"]
                 ELSE IF retry
                 THEN [ended EXCEPT !.retryCount = @ + 1]
                 ELSE [ended EXCEPT !.active = FALSE, !.result = "fail",
                                    !.errors = @ + (IF dl.callbacks THEN 1 ELSE 0)]
    /\ dlast' = [op |-> "attempt", failAt |-> failAt, before |-> dmHistory,
                 entry |-> stamp'.dm]
    /\ zipCall' = NoteAttempt(zipCall)
    /\ UNCHANGED <<epHistory, calls>>
    /\ UNCHANGED <<analyticsVars, searchVars, filterVars, storageVars>>

\* ExamPortal.trackDownload, from handlePaperDownload / handleTextbookDownload
PaperDownload ==
    /\ ~dl.active
    /\ calls.paper < MaxPapers
    /\ calls' = [calls EXCEPT !.paper = @ + 1]
    /\ stamp' = [stamp EXCEPT !.ep = @ + 1]
    /\ epHistory' = epRecord(stamp'.ep, epHistory)
    /\ dropped' = [dropped EXCEPT !.ep = NewestDropped(epHistory, stamp'.ep, epHistory', @)]
    /\ dlast' = [op |-> "paper", failAt |-> "none", before |-> epHistory,
                 entry |-> stamp'.ep]
    /\ UNCHANGED <<dmHistory, smHistory, dl, zipCall>>
    /\ UNCHANGED <<analyticsVars, searchVars, filterVars, storageVars>>

\* line 77: `index < files.length - 1` (index counted from 1 here)
PauseAfterEach(index, count) == index <= count
PauseDue(index, count) == index < count

\* line 71: this.downloadPDF(file.url, file.filename, {showProgress: false}), no
\* callbacks and retryCount 0
BatchDownload == [IdleDownload EXCEPT !.active = TRUE]

\* lines 87-92: results.filter((r) => r.success).length
SuccessCount(results) == Cardinality({ i \in 1..Len(results) : results[i].success })

\* downloadMultipleAsZip(files), lines 61-71: up to the first await. Neither
\* showNotification (it only builds an element) nor downloadPDF called without
\* callbacks (its catch block returns a result) raises, so the catch of lines 93-96
\* is never entered.
DownloadMultipleAsZip(files) ==
    /\ ~zipCall.active
    /\ zipCall.phase = "idle"
    /\ ~dl.active
    /\ IF files = <<>>
       THEN /\ zipCall' = [IdleBatch EXCEPT !.phase = "done"]
            /\ dl' = dl
       ELSE /\ zipCall' = [IdleBatch EXCEPT !.active = TRUE, !.files = files, !.index = 1,
                            !.phase = "downloading",
                            !.log = <<Event("start", files[1])>>]
            /\ dl' = BatchDownload
    /\ dlast' = [NoDownloadOp EXCEPT !.op = "zipCall"]
    /\ UNCHANGED <<dmHistory, smHistory, epHistory, dropped, stamp, calls>>
    /\ UNCHANGED <<analyticsVars, searchVars, filterVars, storageVars>>

\* lines 71-88: the awaited downloadPDF has resolved; its result is pushed, and either
\* the 500 ms timer is set or the loop ends with the closing notification
BatchResumed ==
    /\ zipCall.active
    /\ zipCall.phase = "downloading"
    /\ ~dl.active
    /\ LET file == zipCall.files[zipCall.index]
           results == Append(zipCall.results, [file |-> file, success |-> dl.result = "ok"])
           pushed == [zipCall EXCEPT !.results = results,
                                   !.log = Append(@, Event("end", file))]
       IN  zipCall' = IF PauseDue(zipCall.index, Len(zipCall.files))
                    THEN [pushed EXCEPT !.phase = "pausing",
                                        !.log = Append(@, Event("pause", file))]
                    ELSE [pushed EXCEPT !.phase = "done", !.active = FALSE,
                                        !.shown = SuccessCount(results)]
    /\ dlast' = [NoDownloadOp EXCEPT !.op = "resumed"]
    /\ UNCHANGED <<dmHistory, smHistory, epHistory, dropped, stamp, calls, dl>>
    /\ UNCHANGED <<analyticsVars, searchVars, filterVars, storageVars>>

\* lines 70-72: the timer has fired, the loop goes on to the next file
PauseElapsed ==
    /\ zipCall.active
    /\ zipCall.phase = "pausing"
    /\ zipCall' = [zipCall EXCEPT !.index = @ + 1, !.phase = "downloading",
                              !.log = Append(@, Event("start", zipCall.files[zipCall.index + 1]))]
    /\ dl' = BatchDownload
    /\ dlast' = [NoDownloadOp EXCEPT !.op = "elapsed"]
    /\ UNCHANGED <<dmHistory, smHistory, epHistory, dropped, stamp, calls>>
    /\ UNCHANGED <<analyticsVars, searchVars, filterVars, storageVars>>

\* the lists of files handed to downloadMultipleAsZip
FileLists == { [i \in 1..n |-> i] : n \in 0..MaxFiles }

BNext ==
    \/ \E files \in FileLists : DownloadMultipleAsZip(files)
    \/ \E f \in FailPoints \cup {"none"} : Attempt(f, FALSE)
    \/ BatchResumed
    \/ PauseElapsed
    \/ PaperDownload

DNext ==
    \/ \E p, c \in BOOLEAN : StartDownload(p, c)
    \/ \E f \in FailPoints \cup {"none"}, st \in BOOLEAN : Attempt(f, st)
    \/ PaperDownload

\* ======================================================================
\* SearchEngine
\* ======================================================================
\* text is a sequence of one-character strings
Str1(a) == <<a>>
Str2(a, b) == <<a, b>>
Str3(a, b, c) == <<a, b, c>>
Str4(a, b, c, d) == <<a, b, c, d>>

MinOf(S) == CHOOSE x \in S : \A y \in S : x <= y

\* String.prototype.toLowerCase
LowerChar(c) == CASE c = "A" -> "a" [] c = "B" -> "b" [] OTHER -> c
toLowerCase(t) == [i \in 1..Len(t) |-> LowerChar(t[i])]

\* String.prototype.trim
trim(t) ==
    LET inked == { i \in 1..Len(t) : t[i] # " " }
    IN  IF inked = {} THEN <<>> ELSE SubSeq(t, MinOf(inked), MaxOf(inked))

\* String.prototype.includes
includes(hay, needle) ==
    \E i \in 1..(Len(hay) - Len(needle) + 1) : SubSeq(hay, i, i + Len(needle) - 1) = needle

\* String.prototype.split(" "): every space separates, so two spaces in a row (and the
\* empty text) give an empty piece
RECURSIVE split(_)
split(t) ==
    LET spaces == { i \in 1..Len(t) : t[i] = " " }
    IN  IF spaces = {} THEN <<t>>
        ELSE <<SubSeq(t, 1, MinOf(spaces) - 1)>> \o split(SubSeq(t, MinOf(spaces) + 1, Len(t)))

\* Array.prototype.join(" ")
RECURSIVE join(_)
join(parts) ==
    IF parts = <<>> THEN <<>>
    ELSE IF Len(parts) = 1 THEN parts[1]
    ELSE parts[1] \o <<" ">> \o join(Tail(parts))

\* createSearchText: title, description, subject, grade, year and the tags, the empty
\* ones dropped by filter(Boolean), lower-cased and joined by a space
createSearchText(resource) ==
    LET parts == <<resource.title, resource.description, resource.subject,
                   resource.grade, resource.year>> \o resource.tags
        kept == SelectSeq(parts, LAMBDA part : part # <<>>)
    IN  join([i \in 1..Len(kept) |-> toLowerCase(kept[i])])

\* indexResources: the index entry of a resource
IndexEntry(resource) ==
    [id |-> resource.id, title |-> resource.title, description |-> resource.description,
     subject |-> resource.subject, tags |-> resource.tags, grade |-> resource.grade,
     year |-> resource.year, category |-> resource.category,
     searchText |-> createSearchText(resource)]

AnyTag(item, searchTerm) ==
    \E k \in 1..Len(item.tags) : includes(toLowerCase(item.tags[k]), searchTerm)

\* search, lines 65-78: the filter callback
Matches(item, searchTerm) ==
    \/ includes(toLowerCase(item.title), searchTerm)
    \/ includes(toLowerCase(item.description), searchTerm)
    \/ includes(toLowerCase(item.subject), searchTerm)
    \/ AnyTag(item, searchTerm)
    \/ LET words == split(searchTerm)
       IN  \E k \in 1..Len(words) : includes(item.searchText, words[k])

\* calculateRelevance
RECURSIVE SumSeq(_)
SumSeq(ns) == IF ns = <<>> THEN 0 ELSE ns[1] + SumSeq(Tail(ns))

calculateRelevance(item, searchTerm) ==
    LET words == split(searchTerm)
    IN  (IF includes(toLowerCase(item.title), searchTerm) THEN 100 ELSE 0)
      + (IF includes(toLowerCase(item.subject), searchTerm) THEN 50 ELSE 0)
      + (IF includes(toLowerCase(item.description), searchTerm) THEN 30 ELSE 0)
      + (IF AnyTag(item, searchTerm) THEN 20 ELSE 0)
      + SumSeq([k \in 1..Len(words) |->
                  IF includes(item.searchText, words[k]) THEN 10 ELSE 0])

RECURSIVE InsertByScoreTiesFirst(_, _, _)
InsertByScoreTiesFirst(item, sorted, searchTerm) ==
    IF sorted = <<>> THEN <<item>>
    ELSE IF calculateRelevance(sorted[1], searchTerm) > calculateRelevance(item, searchTerm)
    THEN <<sorted[1]>> \o InsertByScoreTiesFirst(item, Tail(sorted), searchTerm)
    ELSE <<item>> \o sorted

\* Array.prototype.sort with (a, b) => bScore - aScore: stable, descending by score
RECURSIVE InsertByScore(_, _, _)
InsertByScore(item, sorted, searchTerm) ==
    IF sorted = <<>> THEN <<item>>
    ELSE IF calculateRelevance(sorted[1], searchTerm) >= calculateRelevance(item, searchTerm)
    THEN <<sorted[1]>> \o InsertByScore(item, Tail(sorted), searchTerm)
    ELSE <<item>> \o sorted

RECURSIVE SortByScore(_, _)
SortByScore(items, searchTerm) ==
    IF items = <<>> THEN <<>>
    ELSE InsertByScore(items[Len(items)],
                       SortByScore(SubSeq(items, 1, Len(items) - 1), searchTerm), searchTerm)

\* a JavaScript value used as a condition: the empty string is falsy
Truthy(v) == v # <<>>

\* options.filters: undefined, or the selection object of getActiveFilters()
NoFilters == [given |-> FALSE, category |-> <<>>, grade |-> <<>>, year |-> <<>>,
              subject |-> <<>>]
All == Str3("a", "l", "l")
Selection(category, grade, year, subject) ==
    [given |-> TRUE, category |-> category, grade |-> grade, year |-> year,
     subject |-> subject]

\* SearchEngine.applyFilters, lines 147-169: the filter callback
PassesFilters(item, filters) ==
    /\ ~(Truthy(filters.category) /\ item.category # filters.category)
    /\ ~(Truthy(filters.grade) /\ item.grade # filters.grade)
    /\ ~(Truthy(filters.year) /\ item.year # filters.year)
    /\ ~(Truthy(filters.subject) /\ item.subject # filters.subject)

\* SearchEngine.applyFilters: `!filters || Object.keys(filters).length === 0` returns all
searchApplyFilters(results, filters) ==
    IF ~filters.given THEN results
    ELSE SelectSeq(results, LAMBDA item : PassesFilters(item, filters))

\* fullResources.find((r) => r.id === item.id), then filter(Boolean)
Hydrate(items, resources) ==
    LET found(item) == { k \in 1..Len(resources) : resources[k].id = item.id }
        present == SelectSeq(items, LAMBDA item : found(item) # {})
    IN  [k \in 1..Len(present) |-> resources[MinOf(found(present[k]))]]

ReturnNothing(returnAll) == <<>>
\* search, line 58: `options.returnAll ? (this.fullResources || []) : []`
Unsearched(returnAll) == IF returnAll THEN fullResources ELSE <<>>

\* options.limit left out of the options object
NoLimit == -1

LimitedOneMore(fullResults, limit) ==
    IF limit # NoLimit /\ limit # 0 /\ Len(fullResults) > limit
    THEN SubSeq(fullResults, 1, limit + 1)
    ELSE fullResults
\* search, lines 96-100: `options.limit && fullResults.length > options.limit`, where
\* both an absent limit and the limit 0 are falsy
Limited(fullResults, limit) ==
    IF limit # NoLimit /\ limit # 0 /\ Len(fullResults) > limit
    THEN SubSeq(fullResults, 1, limit)
    ELSE fullResults

\* search(query, options)
search(query, filters, limit, returnAll) ==
    IF query = <<>> \/ ~isIndexed
    THEN Unsearched(returnAll)
    ELSE LET searchTerm == trim(toLowerCase(query))
             results == SelectSeq(searchIndex, LAMBDA item : Matches(item, searchTerm))
             ranked == SortByScore(results, searchTerm)
             filteredResults == searchApplyFilters(ranked, filters)
             fullResults == Hydrate(filteredResults, fullResources)
         IN  Limited(fullResults, limit)

\* ------------------------------------------------------------ the inputs
Year2023 == Str4("2", "0", "2", "3")
Textbook == Str1("T")
PastPaper == Str1("P")

\* three resources: upper case in a title, a letter found only in a tag, an empty
\* description and no "b" anywhere
Resource1 == [id |-> 1, title |-> Str2("A", "b"), description |-> Str1("a"),
              subject |-> Str1("a"), tags |-> <<>>, grade |-> Str1("9"),
              year |-> Year2023, category |-> Textbook]
Resource2 == [id |-> 2, title |-> Str1("a"), description |-> Str1("a"),
              subject |-> Str1("a"), tags |-> <<Str3("b", " ", "b")>>,
              grade |-> Str2("1", "0"), year |-> Year2023, category |-> PastPaper]
Resource3 == [id |-> 3, title |-> Str3("a", " ", "a"), description |-> <<>>,
              subject |-> Str1("A"), tags |-> <<Str1("a")>>, grade |-> Str1("9"),
              year |-> Year2023, category |-> Textbook]
ResourcePool == {Resource1, Resource2, Resource3}

\* the lists handed to indexResources: distinct resources of the pool, in any order
ResourceLists ==
    { l \in UNION { [1..n -> ResourcePool] : n \in 0..MaxIndexed } :
        \A i, j \in 1..Len(l) : i # j => l[i] # l[j] }

QueryChars == {"a", "B", " "}
Queries == UNION { [1..n -> QueryChars] : n \in 0..MaxQueryLen }

FilterChoices ==
    { NoFilters,
      Selection(All, All, All, All),
      Selection(All, Str1("9"), All, All),
      Selection(Textbook, All, All, Str1("a")) }

\* no limit, the limit 0 and limits shorter than the longest indexed list
Limits == {NoLimit} \cup 0..(MaxIndexed - 1)

\* options.returnAll, which search reads only on its early return
ReturnAlls(query) == IF query = <<>> \/ ~isIndexed THEN BOOLEAN ELSE {FALSE}

NoCall == [active |-> FALSE, query |-> <<>>, filters |-> NoFilters, limit |-> NoLimit,
           returnAll |-> FALSE, result |-> <<>>]

NoRecentCall == [op |-> "none", query |-> <<>>, before |-> <<>>, count |-> 0]

SInit ==
    /\ searchIndex = <<>>
    /\ fullResources = <<>>
    /\ isIndexed = FALSE
    /\ scall = NoCall
    /\ recentSearches = <<>>
    /\ searchHistory = <<>>
    /\ rcall = NoRecentCall

\* indexResources(resources)
IndexResources(resources) ==
    /\ ~scall.active
    /\ fullResources' = resources
    /\ searchIndex' = [k \in 1..Len(resources) |-> IndexEntry(resources[k])]
    /\ isIndexed' = TRUE
    /\ UNCHANGED scall
    /\ UNCHANGED <<recentSearches, searchHistory, rcall>>
    /\ UNCHANGED <<analyticsVars, downloadVars, filterVars, storageVars>>

\* search(query, {filters, limit, returnAll}) returns its result to the caller
Search(query, filters, limit, returnAll) ==
    /\ ~scall.active
    /\ scall' = [active |-> TRUE, query |-> query, filters |-> filters, limit |-> limit,
                 returnAll |-> returnAll,
                 result |-> search(query, filters, limit, returnAll)]
    /\ UNCHANGED <<searchIndex, fullResources, isIndexed>>
    /\ UNCHANGED <<recentSearches, searchHistory, rcall>>
    /\ UNCHANGED <<analyticsVars, downloadVars, filterVars, storageVars>>

\* the caller has rendered the result and holds it no longer
SearchRendered ==
    /\ scall.active
    /\ scall' = NoCall
    /\ UNCHANGED <<searchIndex, fullResources, isIndexed>>
    /\ UNCHANGED <<recentSearches, searchHistory, rcall>>
    /\ UNCHANGED <<analyticsVars, downloadVars, filterVars, storageVars>>

SeNext ==
    \/ /\ ~scall.active
       /\ \E resources \in ResourceLists : IndexResources(resources)
    \/ /\ ~scall.active
       /\ \E query \in Queries, filters \in FilterChoices, limit \in Limits :
             \E returnAll \in ReturnAlls(query) : Search(query, filters, limit, returnAll)
    \/ SearchRendered

\* ======================================================================
\* FilterManager (src/utils/analytics.js, lines 388-791)
\* ======================================================================
\* Texts are sequences of characters as before; the names of the query parameters and
\* of the sort keys contain no character the URL treats specially and are written as
\* one token each.
Popular == <<"popular">>
Newest == <<"newest">>
Oldest == <<"oldest">>
NameAsc == <<"name-asc">>
NameDesc == <<"name-desc">>
SizeAsc == <<"size-asc">>
SizeDesc == <<"size-desc">>

\* the constructor's selection, also written by resetFilters
DefaultFilters == [category |-> All, grade |-> All, year |-> All, subject |-> All,
                   sortBy |-> Popular, tags |-> <<>>]

\* ---------------------------------------------------------- URLSearchParams
\* the characters URLSearchParams percent-encodes among those of the model
Reserved == {",", "&", "=", "%", "+"}
PctCode(c) ==
    CASE c = "," -> "2C" [] c = "&" -> "26" [] c = "=" -> "3D" [] c = "%" -> "25"
      [] c = "+" -> "2B" [] OTHER -> c
PctChar(code) ==
    CASE code = "2C" -> "," [] code = "26" -> "&" [] code = "3D" -> "=" [] code = "25" -> "%"
      [] code = "2B" -> "+" [] OTHER -> code

\* application/x-www-form-urlencoded serialisation of one name or value
RECURSIVE urlencode(_)
urlencode(t) ==
    IF t = <<>> THEN <<>>
    ELSE (IF t[1] \in Reserved THEN <<"%", PctCode(t[1])>>
          ELSE IF t[1] = " " THEN <<"+">>
          ELSE <<t[1]>>) \o urlencode(Tail(t))

\* and its parsing
RECURSIVE urldecode(_)
urldecode(t) ==
    IF t = <<>> THEN <<>>
    ELSE IF t[1] = "%" /\ Len(t) >= 2 THEN <<PctChar(t[2])>> \o urldecode(SubSeq(t, 3, Len(t)))
    ELSE IF t[1] = "+" THEN <<" ">> \o urldecode(Tail(t))
    ELSE <<t[1]>> \o urldecode(Tail(t))

\* String.prototype.split(sep) and Array.prototype.join(sep) for a one-character sep
RECURSIVE splitOn(_, _)
splitOn(t, sep) ==
    LET at == { i \in 1..Len(t) : t[i] = sep }
    IN  IF at = {} THEN <<t>>
        ELSE <<SubSeq(t, 1, MinOf(at) - 1)>> \o splitOn(SubSeq(t, MinOf(at) + 1, Len(t)), sep)

RECURSIVE joinWith(_, _)
joinWith(parts, sep) ==
    IF parts = <<>> THEN <<>>
    ELSE IF Len(parts) = 1 THEN parts[1]
    ELSE parts[1] \o <<sep>> \o joinWith(Tail(parts), sep)

\* URLSearchParams.prototype.toString: name=value pairs joined by '&'
paramsToString(params) ==
    joinWith([k \in 1..Len(params) |->
                 urlencode(params[k].key) \o <<"=">> \o urlencode(params[k].value)], "&")

\* new URLSearchParams(window.location.search): the pieces between '&', each cut at its
\* first '=', empty pieces skipped
ParsePair(piece) ==
    LET eq == { i \in 1..Len(piece) : piece[i] = "=" }
    IN  IF eq = {} THEN [key |-> urldecode(piece), value |-> <<>>]
        ELSE [key |-> urldecode(SubSeq(piece, 1, MinOf(eq) - 1)),
              value |-> urldecode(SubSeq(piece, MinOf(eq) + 1, Len(piece)))]

parseParams(queryString) ==
    LET pieces == SelectSeq(splitOn(queryString, "&"), LAMBDA piece : piece # <<>>)
    IN  [k \in 1..Len(pieces) |-> ParsePair(pieces[k])]

\* URLSearchParams.prototype.get: the first value of the name; null reads here as the
\* empty text, every use of the result being a truth test
paramsGet(params, name) ==
    LET at == { k \in 1..Len(params) : params[k].key = <<name>> }
    IN  IF at = {} THEN <<>> ELSE params[MinOf(at)].value

\* `params.get(name) || fallback`
OrElse(value, fallback) == IF Truthy(value) THEN value ELSE fallback

\* ------------------------------------------------------------ updateURL
\* updateURL, line 572: the test every entry of activeFilters goes through
Written(value) == value # All /\ value # Popular /\ value # <<>>

\* Object.entries(this.activeFilters): the five texts, under their property names
ScalarEntries(filters) ==
    << [key |-> <<"category">>, value |-> filters.category],
       [key |-> <<"grade">>, value |-> filters.grade],
       [key |-> <<"year">>, value |-> filters.year],
       [key |-> <<"subject">>, value |-> filters.subject],
       [key |-> <<"sortBy">>, value |-> filters.sortBy] >>

\* and the tags array, joined by ',' when it is not empty
TagEntries(filters) ==
    IF Len(filters.tags) > 0
    THEN << [key |-> <<"tags">>, value |-> joinWith(filters.tags, ",")] >>
    ELSE <<>>

\* updateURL: the query string handed to history.replaceState
updateURL(filters) ==
    paramsToString(SelectSeq(ScalarEntries(filters), LAMBDA e : Written(e.value))
                   \o TagEntries(filters))

\* initFromURL, lines 406-413: the selection read from the query string
SelectionOfURL(queryString) ==
    LET params == parseParams(queryString)
    IN  [category |-> OrElse(paramsGet(params, "category"), All),
         grade |-> OrElse(paramsGet(params, "grade"), All),
         year |-> OrElse(paramsGet(params, "year"), All),
         subject |-> OrElse(paramsGet(params, "subject"), All),
         sortBy |-> OrElse(paramsGet(params, "sort"), Popular),
         tags |-> IF Truthy(paramsGet(params, "tags"))
                  THEN splitOn(paramsGet(params, "tags"), ",") ELSE <<>>]

\* ------------------------------------------------------------ applySorting
\* the value of a text of decimal digits
DigitChars == {"0", "1", "2", "3", "4", "5", "6", "7", "8", "9"}
DigitVal(c) ==
    CASE c = "0" -> 0 [] c = "1" -> 1 [] c = "2" -> 2 [] c = "3" -> 3 [] c = "4" -> 4
      [] c = "5" -> 5 [] c = "6" -> 6 [] c = "7" -> 7 [] c = "8" -> 8 [] c = "9" -> 9

RECURSIVE parseDecimal(_)
parseDecimal(t) ==
    IF t = <<>> THEN 0 ELSE 10 * parseDecimal(SubSeq(t, 1, Len(t) - 1)) + DigitVal(t[Len(t)])

\* `new Date(item.uploaded || 0)`: the uploaded texts of the model are years, compared
\* by their year; a missing one reads as the epoch
DateOf(uploaded) == IF Truthy(uploaded) THEN parseDecimal(uploaded) ELSE 1970

\* parseFileSize: /^(\d+(?:\.\d+)?)\s*(B|KB|MB|GB)$/i; the sizes of the model carry no
\* fraction part
LeadingDigits(t) ==
    LET other == { i \in 1..Len(t) : t[i] \notin DigitChars }
    IN  IF other = {} THEN Len(t) ELSE MinOf(other) - 1

SkipSpaces(t) ==
    LET inked == { i \in 1..Len(t) : t[i] # " " }
    IN  IF inked = {} THEN <<>> ELSE SubSeq(t, MinOf(inked), Len(t))

UpperUnitChar(c) ==
    CASE c = "b" -> "B" [] c = "k" -> "K" [] c = "m" -> "M" [] c = "g" -> "G" [] OTHER -> c

UnitFactor(unit) ==
    CASE unit = <<"G", "B">> -> 1024 * 1024 * 1024
      [] unit = <<"M", "B">> -> 1024 * 1024
      [] unit = <<"K", "B">> -> 1024
      [] unit = <<"B">> -> 1
      [] OTHER -> 0

parseFileSize(sizeString) ==
    IF ~Truthy(sizeString) THEN 0
    ELSE LET d == LeadingDigits(sizeString)
             rest == SkipSpaces(SubSeq(sizeString, d + 1, Len(sizeString)))
             unit == [i \in 1..Len(rest) |-> UpperUnitChar(rest[i])]
         IN  IF d = 0 THEN 0
             ELSE parseDecimal(SubSeq(sizeString, 1, d)) * UnitFactor(unit)

\* String.prototype.localeCompare on the letters of the model: the letters decide, and
\* between texts of the same letters the lower case comes first
LetterRank(c) == CASE c = "a" -> 1 [] c = "b" -> 2 [] OTHER -> 3
CaseRank(c) == IF LowerChar(c) = c THEN 0 ELSE 1

RECURSIVE CompareRanks(_, _)
CompareRanks(x, y) ==
    IF x = <<>> /\ y = <<>> THEN 0
    ELSE IF x = <<>> THEN -1
    ELSE IF y = <<>> THEN 1
    ELSE IF x[1] < y[1] THEN -1
    ELSE IF x[1] > y[1] THEN 1
    ELSE CompareRanks(Tail(x), Tail(y))

localeCompare(a, b) ==
    LET letters == CompareRanks([i \in 1..Len(a) |-> LetterRank(LowerChar(a[i]))],
                                [i \in 1..Len(b) |-> LetterRank(LowerChar(b[i]))])
    IN  IF letters # 0 THEN letters
        ELSE CompareRanks([i \in 1..Len(a) |-> CaseRank(a[i])],
                          [i \in 1..Len(b) |-> CaseRank(b[i])])

\* applySorting: the comparator of each case of the switch; a sort key the switch does
\* not know sorts nothing
compareBy(a, b, sortBy) ==
    CASE sortBy = Newest -> DateOf(b.uploaded) - DateOf(a.uploaded)
      [] sortBy = Oldest -> DateOf(a.uploaded) - DateOf(b.uploaded)
      [] sortBy = Popular -> b.downloads - a.downloads
      [] sortBy = NameAsc -> localeCompare(a.title, b.title)
      [] sortBy = NameDesc -> localeCompare(b.title, a.title)
      [] sortBy = SizeAsc -> parseFileSize(a.fileSize) - parseFileSize(b.fileSize)
      [] sortBy = SizeDesc -> parseFileSize(b.fileSize) - parseFileSize(a.fileSize)
      [] OTHER -> 0

RECURSIVE InsertSortedTiesFirst(_, _, _)
InsertSortedTiesFirst(item, sorted, sortBy) ==
    IF sorted = <<>> THEN <<item>>
    ELSE IF compareBy(sorted[1], item, sortBy) < 0
    THEN <<sorted[1]>> \o InsertSortedTiesFirst(item, Tail(sorted), sortBy)
    ELSE <<item>> \o sorted

\* Array.prototype.sort: stable
RECURSIVE InsertSorted(_, _, _)
InsertSorted(item, sorted, sortBy) ==
    IF sorted = <<>> THEN <<item>>
    ELSE IF compareBy(sorted[1], item, sortBy) <= 0
    THEN <<sorted[1]>> \o InsertSorted(item, Tail(sorted), sortBy)
    ELSE <<item>> \o sorted

RECURSIVE applySorting(_, _)
applySorting(resources, sortBy) ==
    IF resources = <<>> THEN <<>>
    ELSE InsertSorted(resources[Len(resources)],
                      applySorting(SubSeq(resources, 1, Len(resources) - 1), sortBy), sortBy)

\* ------------------------------------------------------------ applyFilters
HasSomeTag(item, tags) ==
    \E k \in 1..Len(tags) : \E j \in 1..Len(item.tags) : item.tags[j] = tags[k]
\* applyFilters, lines 450-454: `tags.every((tag) => item.tags && item.tags.includes(tag))`
HasEveryTag(item, tags) ==
    \A k \in 1..Len(tags) : \E j \in 1..Len(item.tags) : item.tags[j] = tags[k]

\* applyFilters, lines 424-447: one equality filter, skipped for 'all'
FilterAxis(items, axis, wanted) ==
    IF wanted # All THEN SelectSeq(items, LAMBDA item : item[axis] = wanted) ELSE items

\* applyFilters, lines 449-455: the tags filter, skipped for an empty tag list
FilterTags(items, tags) ==
    IF Len(tags) > 0 THEN SelectSeq(items, LAMBDA item : HasEveryTag(item, tags)) ELSE items

\* FilterManager.applyFilters(resources, filters)
applyFilters(resources, filters) ==
    LET byCategory == FilterAxis(resources, "category", filters.category)
        byGrade == FilterAxis(byCategory, "grade", filters.grade)
        byYear == FilterAxis(byGrade, "year", filters.year)
        bySubject == FilterAxis(byYear, "subject", filters.subject)
        byTags == FilterTags(bySubject, filters.tags)
    IN  applySorting(byTags, filters.sortBy)

\* ------------------------------------------------------------ the inputs
TagX == Str1("x")
TagY == Str1("y")
TagXY == Str3("x", ",", "y")
Year2022 == Str4("2", "0", "2", "2")
Grade9 == Str1("9")
Grade10 == Str2("1", "0")
SubjectA == Str1("a")

\* four resources with ties on every sort key: equal downloads, titles that differ in
\* case only, the same size written in two ways, a size that does not parse and a
\* resource without upload date
Listed1 == [id |-> 1, category |-> Textbook, grade |-> Grade9, year |-> Year2023,
            subject |-> SubjectA, tags |-> <<TagX>>, downloads |-> 5,
            uploaded |-> Year2023, title |-> Str1("b"),
            fileSize |-> Str4("5", " ", "M", "B")]
Listed2 == [id |-> 2, category |-> Textbook, grade |-> Grade9, year |-> Year2023,
            subject |-> SubjectA, tags |-> <<TagY, TagX>>, downloads |-> 5,
            uploaded |-> Year2022, title |-> Str1("B"),
            fileSize |-> Str3("5", "m", "b")]
Listed3 == [id |-> 3, category |-> PastPaper, grade |-> Grade10, year |-> Year2022,
            subject |-> SubjectA, tags |-> <<>>, downloads |-> 0,
            uploaded |-> <<>>, title |-> Str1("a"),
            fileSize |-> Str4("9", " ", "K", "B")]
Listed4 == [id |-> 4, category |-> Textbook, grade |-> Grade9, year |-> Year2023,
            subject |-> SubjectA, tags |-> <<TagX>>, downloads |-> 7,
            uploaded |-> Year2023, title |-> Str1("b"),
            fileSize |-> Str3("b", "i", "g")]
ListedPool == {Listed1, Listed2, Listed3, Listed4}

\* the lists handed to applyFilters: distinct resources of the pool, in any order
ListedLists ==
    { l \in UNION { [1..n -> ListedPool] : n \in 0..MaxListed } :
        \A i, j \in 1..Len(l) : i # j => l[i] # l[j] }

\* the values the filter controls offer
AxisValues(key) ==
    CASE key = "category" -> {All, Textbook}
      [] key = "grade" -> {All, Grade9, Grade10}
      [] key = "year" -> {All, Year2023}
      [] key = "subject" -> {All, SubjectA}
      [] key = "sortBy" -> {Popular, Newest, NameAsc, SizeDesc}
EqualityAxes == {"category", "grade", "year", "subject"}
FilterKeys == EqualityAxes \cup {"sortBy"}
TagChoices == {TagX, TagY, TagXY}

\* the query strings the page is opened with
LandingURLs ==
    { <<>>,
      <<"sort", "=">> \o Newest,
      <<"grade", "=">> \o Grade9 \o <<"&", "tags", "=">> \o TagX }

NoFilterCall == [op |-> "none", key |-> "none", value |-> <<>>, prev |-> "none",
                 before |-> DefaultFilters, resources |-> <<>>, result |-> <<>>]

\* Array.prototype.indexOf and splice(index, 1)
IndexOfTag(tags, tag) ==
    LET at == { k \in 1..Len(tags) : tags[k] = tag }
    IN  IF at = {} THEN 0 ELSE MinOf(at)
Spliced(tags, k) == SubSeq(tags, 1, k - 1) \o SubSeq(tags, k + 1, Len(tags))

\* A registered callback: the number of its registration, the registration whose
\* unsubscribe function it calls when it is invoked (0: none; its own number: it
\* unsubscribes itself), and whether it is the callback of ExamPortal.initFilterUI.
Listener(id, drops, controller) == [id |-> id, drops |-> drops, controller |-> controller]
ListenerIds(callbacks) == { callbacks[k].id : k \in 1..Len(callbacks) }
PositionOfListener(callbacks, id) ==
    LET at == { k \in 1..Len(callbacks) : callbacks[k].id = id }
    IN  IF at = {} THEN 0 ELSE MinOf(at)

\* the function onFilterChange returns, lines 593-598: indexOf and splice
unsubscribe(callbacks, id) ==
    IF PositionOfListener(callbacks, id) > 0
    THEN Spliced(callbacks, PositionOfListener(callbacks, id))
    ELSE callbacks

NoNotice == [registered |-> <<>>, invoked |-> <<>>, selection |-> DefaultFilters,
             reloads |-> 0, events |-> [axis \in FilterKeys |-> 0]]

\* one callback is invoked with the selection. The controller's callback (part_001,
\* lines 412-441) calls analytics.trackFilterChange once per axis that is not at its
\* default and reloads the lists once.
Invoked(note, listener) ==
    [note EXCEPT
        !.invoked = Append(@, listener.id),
        !.reloads = @ + (IF listener.controller THEN 1 ELSE 0),
        !.events = [axis \in FilterKeys |->
                      @[axis] + (IF listener.controller
                                    /\ note.selection[axis] # DefaultFilters[axis]
                                 THEN 1 ELSE 0)]]

\* Array.prototype.forEach over this.filterCallbacks, lines 603-605: the indices
\* 0..length-1 of the array as it was at the start are visited in turn, an index the
\* array no longer has is passed over, and the callback found at an index is the one
\* standing there at that moment
RECURSIVE ForEachFrom(_, _, _, _)
ForEachFrom(callbacks, k, len, note) ==
    IF k > len THEN [callbacks |-> callbacks, note |-> note]
    ELSE IF k > Len(callbacks) THEN ForEachFrom(callbacks, k + 1, len, note)
    ELSE ForEachFrom(IF callbacks[k].drops # 0
                     THEN unsubscribe(callbacks, callbacks[k].drops)
                     ELSE callbacks,
                     k + 1, len, Invoked(note, callbacks[k]))

\* notifyListeners(), lines 602-606
notifyListeners(callbacks, selection) ==
    ForEachFrom(callbacks, 1, Len(callbacks),
                [NoNotice EXCEPT !.registered = [k \in 1..Len(callbacks) |-> callbacks[k].id],
                                 !.selection = selection])

\* the effect of this.notifyListeners() at the end of a mutation
Notified(selection) ==
    /\ filterCallbacks' = notifyListeners(filterCallbacks, selection).callbacks
    /\ notice' = notifyListeners(filterCallbacks, selection).note

NoPortal == [initialised |-> FALSE, container |-> FALSE, registrations |-> 0]

FInit ==
    /\ activeFilters = DefaultFilters
    /\ url \in LandingURLs
    /\ fcall = NoFilterCall
    /\ filterCallbacks = <<>>
    /\ notice = NoNotice
    /\ portal = NoPortal

\* what the mutation before the current one was, for initFromURL to remember
Mutation(op, key, value) ==
    [NoFilterCall EXCEPT !.op = op, !.key = key, !.value = value]

\* setFilter(key, value)
SetFilter(key, value) ==
    /\ activeFilters' = [activeFilters EXCEPT ![key] = value]
    /\ url' = updateURL(activeFilters')
    /\ fcall' = Mutation("setFilter", key, value)
    /\ Notified(activeFilters')
    /\ UNCHANGED portal
    /\ UNCHANGED <<analyticsVars, downloadVars, searchVars, storageVars>>

\* setFilters(filters): Object.assign of two properties
SetFilters(key1, value1, key2, value2) ==
    /\ activeFilters' = [activeFilters EXCEPT ![key1] = value1, ![key2] = value2]
    /\ url' = updateURL(activeFilters')
    /\ fcall' = Mutation("setFilters", key1, value1)
    /\ Notified(activeFilters')
    /\ UNCHANGED portal
    /\ UNCHANGED <<analyticsVars, downloadVars, searchVars, storageVars>>

\* resetFilters()
ResetFilters ==
    /\ activeFilters' = DefaultFilters
    /\ url' = updateURL(activeFilters')
    /\ fcall' = Mutation("resetFilters", "none", <<>>)
    /\ Notified(activeFilters')
    /\ UNCHANGED portal
    /\ UNCHANGED <<analyticsVars, downloadVars, searchVars, storageVars>>

\* toggleTag(tag)
ToggleTag(tag) ==
    /\ Len(activeFilters.tags) < MaxTags \/ IndexOfTag(activeFilters.tags, tag) # 0
    /\ activeFilters' =
          [activeFilters EXCEPT !.tags =
              IF IndexOfTag(@, tag) = 0 THEN Append(@, tag)
              ELSE Spliced(@, IndexOfTag(@, tag))]
    /\ url' = updateURL(activeFilters')
    /\ fcall' = Mutation("toggleTag", "tags", tag)
    /\ Notified(activeFilters')
    /\ UNCHANGED portal
    /\ UNCHANGED <<analyticsVars, downloadVars, searchVars, storageVars>>

\* initFromURL(): re-read the selection from the query string, then updateURL
InitFromURL ==
    /\ activeFilters' = SelectionOfURL(url)
    /\ url' = updateURL(activeFilters')
    /\ fcall' = [NoFilterCall EXCEPT !.op = "initFromURL", !.prev = fcall.op,
                                     !.key = fcall.key, !.value = fcall.value,
                                     !.before = activeFilters]
    /\ UNCHANGED <<filterCallbacks, notice, portal>>
    /\ UNCHANGED <<analyticsVars, downloadVars, searchVars, storageVars>>

\* applyFilters(resources) with the active selection; the result goes to the caller
ApplyFilters(resources) ==
    /\ fcall.op # "applyFilters"
    /\ fcall' = [NoFilterCall EXCEPT !.op = "applyFilters", !.resources = resources,
                                     !.result = applyFilters(resources, activeFilters)]
    /\ UNCHANGED <<activeFilters, url, filterCallbacks, notice, portal>>
    /\ UNCHANGED <<analyticsVars, downloadVars, searchVars, storageVars>>

\* the caller has rendered the list applyFilters returned
FiltersRendered ==
    /\ fcall.op = "applyFilters"
    /\ fcall' = NoFilterCall
    /\ UNCHANGED <<activeFilters, url, filterCallbacks, notice, portal>>
    /\ UNCHANGED <<analyticsVars, downloadVars, searchVars, storageVars>>

\* the pairs of properties handed to setFilters
FilterPairs == { <<"grade", "sortBy">>, <<"category", "year">> }

\* every selection the controls can produce
Selections ==
    { [category |-> c, grade |-> g, year |-> y, subject |-> s, sortBy |-> o, tags |-> t] :
        c \in AxisValues("category"), g \in AxisValues("grade"), y \in AxisValues("year"),
        s \in AxisValues("subject"), o \in AxisValues("sortBy"),
        t \in { l \in UNION { [1..n -> TagChoices] : n \in 0..MaxTags } :
                  \A i, j \in 1..Len(l) : i # j => l[i] # l[j] } }

\* the selection and the URL of a page in use
FInitSelected ==
    /\ activeFilters \in Selections
    /\ url = updateURL(activeFilters)
    /\ fcall = NoFilterCall
    /\ filterCallbacks = <<>>
    /\ notice = NoNotice
    /\ portal = NoPortal

\* onFilterChange(callback), line 592, called by code that keeps the returned function
OnFilterChange(drops) ==
    /\ portal.registrations < MaxListeners
    /\ portal' = [portal EXCEPT !.registrations = @ + 1]
    /\ filterCallbacks' =
          Append(filterCallbacks, Listener(portal'.registrations, drops, FALSE))
    /\ fcall' = Mutation("onFilterChange", "none", <<>>)
    /\ UNCHANGED <<activeFilters, url, notice>>
    /\ UNCHANGED <<analyticsVars, downloadVars, searchVars, storageVars>>

\* the function returned by onFilterChange is called outside a notification
Unsubscribe(id) ==
    /\ id \in ListenerIds(filterCallbacks)
    /\ filterCallbacks' = unsubscribe(filterCallbacks, id)
    /\ fcall' = Mutation("unsubscribe", "none", <<>>)
    /\ UNCHANGED <<activeFilters, url, notice, portal>>
    /\ UNCHANGED <<analyticsVars, downloadVars, searchVars, storageVars>>

\* ExamPortal.initFilters, part_001 lines 301-310, and initFilterUI, lines 395-459: with
\* the container in the page one more callback is registered, without it none
initFilters(callbacks, container) ==
    IF container
    THEN Append(callbacks, Listener(Len(callbacks) + 1, 0, TRUE))
    ELSE callbacks

\* ExamPortal.init, part_001 lines 43-89, from the end of `await this.loadData()`:
\* initFilters(), filterManager.initFromURL(), the first loads, initFilters() again
ExamPortalInit(container) ==
    /\ ~portal.initialised
    /\ filterCallbacks = <<>>
    /\ portal' = [portal EXCEPT !.initialised = TRUE, !.container = container]
    /\ filterCallbacks' = initFilters(initFilters(filterCallbacks, container), container)
    /\ activeFilters' = SelectionOfURL(url)
    /\ url' = updateURL(activeFilters')
    /\ fcall' = Mutation("init", "none", <<>>)
    /\ UNCHANGED notice
    /\ UNCHANGED <<analyticsVars, downloadVars, searchVars, storageVars>>

\* listeners kept by code outside the controller, a few mutations
LNext ==
    \/ \E drops \in 0..MaxListeners : OnFilterChange(drops)
    \/ \E id \in 1..MaxListeners : Unsubscribe(id)
    \/ \E value \in AxisValues("grade") : SetFilter("grade", value)
    \/ SetFilters("category", Textbook, "year", Year2023)
    \/ ResetFilters
    \/ ToggleTag(TagX)

\* the controller initialised on a page with or without the filter container, and the
\* mutations its controls make
PNext ==
    \/ \E container \in BOOLEAN : ExamPortalInit(container)
    \/ /\ portal.initialised
       /\ \E key \in FilterKeys : \E value \in AxisValues(key) : SetFilter(key, value)
    \/ /\ portal.initialised
       /\ SetFilters("category", Textbook, "year", Year2023)
    \/ /\ portal.initialised
       /\ ResetFilters
    \/ /\ portal.initialised
       /\ ToggleTag(TagX)

FNext ==
    \/ \E key \in FilterKeys : \E value \in AxisValues(key) : SetFilter(key, value)
    \/ \E pair \in FilterPairs :
          \E value1 \in AxisValues(pair[1]) \ {All}, value2 \in AxisValues(pair[2]) :
              SetFilters(pair[1], value1, pair[2], value2)
    \/ ResetFilters
    \/ \E tag \in TagChoices : ToggleTag(tag)
    \/ InitFromURL

FaNext ==
    \/ \E resources \in ListedLists : ApplyFilters(resources)
    \/ FiltersRendered

\* ======================================================================
\* StorageManager (src/utils/storage.js) over window.localStorage
\* ======================================================================
\* localStorage is the list of its entries in the order of localStorage.key(i): a new
\* key goes to the end, a removed one closes the gap. A key is its name and whether it
\* starts with the prefix "examportal_"; a stored text is either the JSON of an
\* envelope or a text JSON.parse rejects.
Namespaced(name) == [prefixed |-> TRUE, name |-> name]
ThemeKey == [prefixed |-> FALSE, name |-> "theme"]
\* two of the keys the StorageManager's own accessors use
KeyNames == {"download_history", "favorites"}

\* JSON.stringify(data) of set, lines 11-19; expires 0 stands for null. The envelope's
\* timestamp and version are written and never read back, and are left out.
Envelope(value, expires) == [parses |-> TRUE, value |-> value, expires |-> expires]
\* a text that is no JSON
Garbage == [parses |-> FALSE, value |-> 0, expires |-> 0]

\* the values handed to set, and the default handed to get
StoredValues == {1, 2}
DefaultValue == 0
\* options.expires: 0 (left out) or a number of milliseconds
Lifetimes == {0, 1}

PositionOf(store, key) ==
    LET at == { i \in 1..Len(store) : store[i].key = key }
    IN  IF at = {} THEN 0 ELSE MinOf(at)

\* localStorage.getItem(key)
getItem(store, key) ==
    IF PositionOf(store, key) = 0 THEN Absent(Garbage)
    ELSE Stored(store[PositionOf(store, key)].text)

\* localStorage.setItem(key, text)
setItem(store, key, text) ==
    IF PositionOf(store, key) = 0 THEN Append(store, [key |-> key, text |-> text])
    ELSE [store EXCEPT ![PositionOf(store, key)].text = text]

\* localStorage.removeItem(key)
removeItem(store, key) == SelectSeq(store, LAMBDA entry : entry.key # key)

\* `data.expires && now > data.expires`
Lapsed(text, time) == text.expires # 0 /\ time > text.expires

\* clearExpired, lines 114-126: what the loop body does with the key at index i
Stale(entry, time) == ~entry.text.parses \/ Lapsed(entry.text, time)

\* The accesses to window.localStorage an operation makes besides setItem; `broken` is
\* the set of those that raise an error (storage disabled, a security error) during a
\* call.
Accesses == {"length", "key", "getItem", "removeItem"}
\* no access, one kind of access, or every access raising
Faults == {{}, Accesses} \cup { {access} : access \in Accesses }
\* what an operation leaves behind: the storage, its return value, and whether an
\* error left the operation instead of a return value
Outcome(store, ret, threw) == [store |-> store, ret |-> ret, threw |-> threw]

\* `for (let i = 0; i < localStorage.length; i++) { const key = localStorage.key(i)`:
\* the loop head raises on reading the length, or on key(0) when there is an entry
LoopRaises(store, broken) ==
    "length" \in broken \/ (Len(store) > 0 /\ "key" \in broken)

\* clearExpired, lines 109-128: `for (let i = 0; i < localStorage.length; i++)`, the
\* index moving on also after a removal has shifted the later keys down by one. An
\* error of getItem or JSON.parse, or of the removeItem inside the inner try, is caught
\* by the inner catch, which calls removeItem; an error of that call (and of key(i))
\* leaves the loop for the outer catch: `failed`.
RECURSIVE ClearFrom(_, _, _, _)
ClearFrom(store, i, time, broken) ==
    IF i > Len(store) THEN [store |-> store, failed |-> FALSE]
    ELSE IF "key" \in broken THEN [store |-> store, failed |-> TRUE]
    ELSE IF store[i].key.prefixed /\ ("getItem" \in broken \/ Stale(store[i], time))
    THEN (IF "removeItem" \in broken THEN [store |-> store, failed |-> TRUE]
          ELSE ClearFrom(removeItem(store, store[i].key), i + 1, time, broken))
    ELSE ClearFrom(store, i + 1, time, broken)

\* clearExpired, lines 104-135: the number of removals, or 0 from the outer catch
clearExpired(store, time, broken) ==
    IF "length" \in broken THEN Outcome(store, 0, FALSE)
    ELSE LET loop == ClearFrom(store, 1, time, broken)
         IN  Outcome(loop.store,
                     IF loop.failed THEN 0 ELSE Len(store) - Len(loop.store), FALSE)

\* clear, lines 81-101: the keys are collected first and removed afterwards; the first
\* removeItem that raises ends the call in the catch
clear(store, broken) ==
    IF \/ LoopRaises(store, broken)
       \/ "removeItem" \in broken /\ \E i \in 1..Len(store) : store[i].key.prefixed
    THEN Outcome(store, 0, FALSE)
    ELSE Outcome(SelectSeq(store, LAMBDA entry : ~entry.key.prefixed), 1, FALSE)

\* remove, lines 69-78
remove(store, key, broken) ==
    IF "removeItem" \in broken THEN Outcome(store, 0, FALSE)
    ELSE Outcome(removeItem(store, key), 1, FALSE)

\* the unprefixed names keys() collects, in key(i) order
RECURSIVE NamesOf(_)
NamesOf(store) ==
    IF store = <<>> THEN <<>>
    ELSE (IF Head(store).key.prefixed THEN <<Head(store).key.name>> ELSE <<>>)
         \o NamesOf(Tail(store))

\* keys(), lines 137-149: the loop stands in no try block, an error of
\* localStorage.length or localStorage.key leaves the method
keys(store, broken) ==
    IF LoopRaises(store, broken) THEN [list |-> <<>>, threw |-> TRUE]
    ELSE [list |-> NamesOf(store), threw |-> FALSE]

\* getUsage returns null from its catch
NullUsage == -1
\* getUsage, lines 151-173: the `items` of its result (the byte counts follow from the
\* lengths of the stored texts, which the model does not carry), or null
getUsage(store, broken) ==
    IF LoopRaises(store, broken) \/ (Len(store) > 0 /\ "getItem" \in broken)
    THEN Outcome(store, NullUsage, FALSE)
    ELSE Outcome(store, Len(store), FALSE)

\* the outcomes of one localStorage.setItem call inside set
WriteOutcomes == {"ok", "QuotaExceededError", "SecurityError"}
\* the outcome of the first write and, where set writes again, of the second
WritePlans ==
    { <<first, second>> \in WriteOutcomes \X WriteOutcomes :
        first # "QuotaExceededError" => second = "ok" }

RetriesAlways(first) == TRUE
\* set, line 26: `error.name === "QuotaExceededError"`
Retries(first) == first = "QuotaExceededError"

\* set: the storage after the call
setStore(store, key, text, first, second, time, broken) ==
    IF first = "ok" THEN setItem(store, key, text)
    ELSE IF Retries(first)
    THEN (IF second = "ok" THEN setItem(clearExpired(store, time, broken).store, key, text)
          ELSE clearExpired(store, time, broken).store)
    ELSE store

\* set: its return value
setResult(first, second) == first = "ok" \/ (Retries(first) /\ second = "ok")

GetsStale(text, time) == FALSE
\* get, line 56: `data.expires && Date.now() > data.expires`
GetsLapsed(text, time) == Lapsed(text, time)

\* get: its return value; an error of getItem or JSON.parse ends in the catch
getResult(store, key, defaultValue, time, broken) ==
    LET item == getItem(store, key)
    IN  IF "getItem" \in broken THEN defaultValue
        ELSE IF ~item.has THEN defaultValue
        ELSE IF ~item.val.parses THEN defaultValue
        ELSE IF GetsLapsed(item.val, time) THEN defaultValue
        ELSE item.val.value

\* get: the storage after the call, an expired entry being removed by this.remove(key)
getStore(store, key, time, broken) ==
    LET item == getItem(store, key)
    IN  IF "getItem" \notin broken /\ item.has /\ item.val.parses
           /\ GetsLapsed(item.val, time)
        THEN remove(store, key, broken).store
        ELSE store

NoWrite == [has |-> FALSE, value |-> 0, expires |-> 0]
NoStorageOp == [op |-> "none", key |-> ThemeKey, ret |-> 0, first |-> "ok", second |-> "ok",
                cleanups |-> 0, attempts |-> 0, at |-> 0, before |-> <<>>,
                broken |-> {}, threw |-> FALSE, list |-> <<>>]

NoFavoriteOp == [op |-> "none", id |-> 0, before |-> <<>>]

StInit ==
    /\ ls = <<>>
    /\ clock = 0
    /\ written = [name \in KeyNames |-> NoWrite]
    /\ sop = NoStorageOp
    /\ favorites = <<>>
    /\ fop = NoFavoriteOp

\* set(key, value, {expires})
Set(name, value, lifetime, first, second, broken) ==
    LET key == Namespaced(name)
        expires == IF lifetime # 0 THEN clock + lifetime ELSE 0
        text == Envelope(value, expires)
    IN  /\ ls' = setStore(ls, key, text, first, second, clock, broken)
        /\ written' = IF setResult(first, second)
                      THEN [written EXCEPT ![name] =
                                [has |-> TRUE, value |-> value, expires |-> expires]]
                      ELSE written
        /\ sop' = [NoStorageOp EXCEPT !.op = "set", !.key = key, !.first = first,
                      !.second = IF Retries(first) THEN second ELSE "ok",
                      !.ret = IF setResult(first, second) THEN 1 ELSE 0,
                      !.cleanups = IF first # "ok" /\ Retries(first) THEN 1 ELSE 0,
                      !.attempts = IF first # "ok" /\ Retries(first) THEN 2 ELSE 1,
                      !.at = clock, !.before = ls, !.broken = broken]
        /\ UNCHANGED clock
        /\ UNCHANGED <<favorites, fop>>
        /\ UNCHANGED <<analyticsVars, downloadVars, searchVars, filterVars>>

\* get(key, defaultValue)
Get(name, broken) ==
    LET key == Namespaced(name)
    IN  /\ ls' = getStore(ls, key, clock, broken)
        /\ sop' = [NoStorageOp EXCEPT !.op = "get", !.key = key, !.at = clock,
                      !.ret = getResult(ls, key, DefaultValue, clock, broken),
                      !.broken = broken]
        /\ UNCHANGED <<clock, written>>
        /\ UNCHANGED <<favorites, fop>>
        /\ UNCHANGED <<analyticsVars, downloadVars, searchVars, filterVars>>

\* remove(key)
Remove(name, broken) ==
    /\ ls' = remove(ls, Namespaced(name), broken).store
    /\ written' = IF remove(ls, Namespaced(name), broken).ret = 1
                  THEN [written EXCEPT ![name] = NoWrite]
                  ELSE written
    /\ sop' = [NoStorageOp EXCEPT !.op = "remove", !.key = Namespaced(name), !.at = clock,
                  !.ret = remove(ls, Namespaced(name), broken).ret, !.broken = broken]
    /\ UNCHANGED clock
    /\ UNCHANGED <<favorites, fop>>
    /\ UNCHANGED <<analyticsVars, downloadVars, searchVars, filterVars>>

\* clear()
Clear(broken) ==
    /\ ls' = clear(ls, broken).store
    /\ written' = IF clear(ls, broken).ret = 1
                  THEN [name \in KeyNames |-> NoWrite]
                  ELSE written
    /\ sop' = [NoStorageOp EXCEPT !.op = "clear", !.at = clock,
                  !.ret = clear(ls, broken).ret, !.broken = broken]
    /\ UNCHANGED clock
    /\ UNCHANGED <<favorites, fop>>
    /\ UNCHANGED <<analyticsVars, downloadVars, searchVars, filterVars>>

\* clearExpired(); it returns the number of entries it removed
ClearExpired(broken) ==
    /\ ls' = clearExpired(ls, clock, broken).store
    /\ sop' = [NoStorageOp EXCEPT !.op = "clearExpired", !.at = clock, !.cleanups = 1,
                  !.ret = clearExpired(ls, clock, broken).ret, !.broken = broken]
    /\ UNCHANGED <<clock, written>>
    /\ UNCHANGED <<favorites, fop>>
    /\ UNCHANGED <<analyticsVars, downloadVars, searchVars, filterVars>>

\* keys()
Keys(broken) ==
    /\ sop' = [NoStorageOp EXCEPT !.op = "keys", !.at = clock, !.broken = broken, !.list = keys(ls, broken).list,
                  !.threw = keys(ls, broken).threw]
    /\ UNCHANGED <<ls, clock, written>>
    /\ UNCHANGED <<favorites, fop>>
    /\ UNCHANGED <<analyticsVars, downloadVars, searchVars, filterVars>>

\* getUsage()
GetUsage(broken) ==
    /\ sop' = [NoStorageOp EXCEPT !.op = "getUsage", !.at = clock, !.broken = broken, !.ret = getUsage(ls, broken).ret]
    /\ UNCHANGED <<ls, clock, written>>
    /\ UNCHANGED <<favorites, fop>>
    /\ UNCHANGED <<analyticsVars, downloadVars, searchVars, filterVars>>

\* restoreBackup, line 215: localStorage.setItem(key, value) with a text of the backup
\* file that is no JSON
RestoreEntry(name) ==
    /\ ls' = setItem(ls, Namespaced(name), Garbage)
    /\ written' = [written EXCEPT ![name] = NoWrite]
    /\ sop' = [NoStorageOp EXCEPT !.op = "restoreBackup", !.key = Namespaced(name),
                  !.at = clock]
    /\ UNCHANGED clock
    /\ UNCHANGED <<favorites, fop>>
    /\ UNCHANGED <<analyticsVars, downloadVars, searchVars, filterVars>>

\* the theme switch: localStorage.setItem("theme", "dark"), a key outside the namespace
WriteTheme ==
    /\ PositionOf(ls, ThemeKey) = 0
    /\ ls' = setItem(ls, ThemeKey, Garbage)
    /\ sop' = [NoStorageOp EXCEPT !.op = "theme", !.at = clock]
    /\ UNCHANGED <<clock, written>>
    /\ UNCHANGED <<favorites, fop>>
    /\ UNCHANGED <<analyticsVars, downloadVars, searchVars, filterVars>>

\* Date.now() moves on
StorageTick ==
    /\ clock < MaxClock
    /\ clock' = clock + 1
    /\ sop' = [NoStorageOp EXCEPT !.op = "tick", !.at = clock']
    /\ UNCHANGED <<ls, written>>
    /\ UNCHANGED <<favorites, fop>>
    /\ UNCHANGED <<analyticsVars, downloadVars, searchVars, filterVars>>

\* the storage answering every access but setItem
StNext ==
    \/ \E name \in KeyNames, value \in StoredValues, lifetime \in Lifetimes,
          plan \in WritePlans : Set(name, value, lifetime, plan[1], plan[2], {})
    \/ \E name \in KeyNames : Get(name, {})
    \/ \E name \in KeyNames : Remove(name, {})
    \/ Clear({})
    \/ ClearExpired({})
    \/ \E name \in KeyNames : RestoreEntry(name)
    \/ WriteTheme
    \/ StorageTick

\* The storages a call can find: up to three entries in any key order, an entry of the
\* namespace holding an envelope written by an earlier set or an unparseable text.
EntriesAt(time) ==
    { [key |-> Namespaced(name), text |-> text] :
        name \in KeyNames,
        text \in {Garbage} \cup { Envelope(value, expires) :
                                    value \in StoredValues, expires \in 0..(time + 1) } }
    \cup {[key |-> ThemeKey, text |-> Garbage]}
StoresAt(time) ==
    { store \in UNION { [1..n -> EntriesAt(time)] : n \in 0..3 } :
        \A i, j \in 1..Len(store) : store[i].key = store[j].key => i = j }
WrittenIn(store) ==
    [name \in KeyNames |->
        LET item == getItem(store, Namespaced(name))
        IN  IF item.has /\ item.val.parses
            THEN [has |-> TRUE, value |-> item.val.value, expires |-> item.val.expires]
            ELSE NoWrite]

StfInit ==
    /\ clock \in 0..MaxClock
    /\ ls \in StoresAt(clock)
    /\ written = WrittenIn(ls)
    /\ sop = NoStorageOp
    /\ favorites = <<>>
    /\ fop = NoFavoriteOp

\* one call of an operation of lines 9-172, with its own set of failing accesses
StfNext ==
    \/ /\ sop.op = "none"
       /\ \E name \in KeyNames, value \in StoredValues, lifetime \in Lifetimes,
             plan \in WritePlans, broken \in Faults :
               Set(name, value, lifetime, plan[1], plan[2], broken)
    \/ /\ sop.op = "none"
       /\ \E name \in KeyNames, broken \in Faults : Get(name, broken)
    \/ /\ sop.op = "none"
       /\ \E name \in KeyNames, broken \in Faults : Remove(name, broken)
    \/ /\ sop.op = "none"
       /\ \E broken \in Faults : Clear(broken)
    \/ /\ sop.op = "none"
       /\ \E broken \in Faults : ClearExpired(broken)
    \/ /\ sop.op = "none"
       /\ \E broken \in Faults : Keys(broken)
    \/ /\ sop.op = "none"
       /\ \E broken \in Faults : GetUsage(broken)

\* ======================================================================
\* Recent searches: StorageManager.addSearch and SearchEngine.saveSearch
\* ======================================================================
\* `[...new Set(searches)]`: every value once, at the place of its first occurrence
\* the elements of s at the positions `at`, in their order
PickAt(s, at) ==
    [k \in 1..Cardinality(at) |->
        s[CHOOSE i \in at : Cardinality({ j \in at : j <= i }) = k]]
UniqueKeepLast(searches) ==
    PickAt(searches, { i \in 1..Len(searches) :
                         \A j \in (i + 1)..Len(searches) : searches[j] # searches[i] })
Unique(searches) ==
    PickAt(searches, { i \in 1..Len(searches) :
                         \A j \in 1..(i - 1) : searches[j] # searches[i] })

\* addSearch, lines 326-343: the value handed to this.set("recent_searches", ...), or
\* the stored value where the call returns at once
addSearch(query, searches) ==
    IF query = <<>> \/ Len(trim(query)) < 2 THEN searches
    ELSE LET trimmedQuery == trim(query)
             index == IndexOfTag(searches, trimmedQuery)
             others == IF index > 0 THEN Spliced(searches, index) ELSE searches
         IN  Truncate(Unshift(trimmedQuery, others), SearchCap)

\* saveSearch, lines 227-238: the value handed to localStorage.setItem
saveSearch(query, searches) ==
    IF query = <<>> \/ Len(query) < 2 THEN searches
    ELSE Truncate(Unique(Unshift(query, searches)), SearchCap)

\* the searches of earlier visits: n different queries, newest first
PastLetters == <<"p", "q", "r", "s", "t", "u", "v", "w">>
PastSearch(i) == <<PastLetters[((i - 1) \div 8) + 1], PastLetters[((i - 1) % 8) + 1]>>
PastSearches(n) == [i \in 1..n |-> PastSearch(i)]

\* the queries handed in: new ones (with and without blanks around them, too short
\* ones, the empty one) and the newest and the oldest of the stored ones
RecentQueries ==
    { <<>>, Str2("a", " "), Str2("a", "b"), Str3(" ", "a", "b"),
      PastSearch(1), PastSearch(SearchCap) }

RInit ==
    /\ searchIndex = <<>>
    /\ fullResources = <<>>
    /\ isIndexed = FALSE
    /\ scall = NoCall
    /\ \E n \in {0, SearchCap} : recentSearches = PastSearches(n)
    /\ \E n \in {0, SearchCap} : searchHistory = PastSearches(n)
    /\ rcall = NoRecentCall

\* storage.addSearch(query); the write of this.set going through
AddSearch(query) ==
    /\ recentSearches' = addSearch(query, recentSearches)
    /\ rcall' = [op |-> "addSearch", query |-> query, before |-> recentSearches,
                 count |-> rcall.count + 1]
    /\ UNCHANGED <<searchIndex, fullResources, isIndexed, scall, searchHistory>>
    /\ UNCHANGED <<analyticsVars, downloadVars, filterVars, storageVars>>

\* searchEngine.saveSearch(query); the write of localStorage.setItem going through
SaveSearch(query) ==
    /\ searchHistory' = saveSearch(query, searchHistory)
    /\ rcall' = [op |-> "saveSearch", query |-> query, before |-> searchHistory,
                 count |-> rcall.count + 1]
    /\ UNCHANGED <<searchIndex, fullResources, isIndexed, scall, recentSearches>>
    /\ UNCHANGED <<analyticsVars, downloadVars, filterVars, storageVars>>

RNext ==
    \/ /\ rcall.count < MaxSearches
       /\ \E query \in RecentQueries : AddSearch(query)
    \/ /\ rcall.count < MaxSearches
       /\ \E query \in RecentQueries : SaveSearch(query)

\* ======================================================================
\* Favourites: ExamPortal.toggleFavorite and StorageManager.getFavorites
\* ======================================================================
\* the key toggleFavorite writes, part_001 line 1497: "favorites", without the prefix
PlainFavoritesKey == [prefixed |-> FALSE, name |-> "favorites"]
\* JSON.stringify(this.favorites): the array itself, in no envelope
PlainJSON(array) == [parses |-> TRUE, array |-> array]

\* getFavorites(), storage.js lines 283-285: this.get("favorites", [])
getFavorites(store, time) == getResult(store, Namespaced("favorites"), <<>>, time, {})

\* ExamPortal.isFavorite, part_001 lines 1268-1270
isFavorite(array, resourceId) == resourceId \in Range(array)

\* toggleFavorite, lines 1489-1496: indexOf, then push or splice
toggled(array, resourceId) ==
    IF IndexOfTag(array, resourceId) = 0 THEN Append(array, resourceId)
    ELSE Spliced(array, IndexOfTag(array, resourceId))

\* ExamPortal.toggleFavorite(resourceId)
ToggleFavorite(resourceId) ==
    /\ favorites' = toggled(favorites, resourceId)
    /\ ls' = setItem(ls, PlainFavoritesKey, PlainJSON(favorites'))
    /\ fop' = [op |-> "toggleFavorite", id |-> resourceId, before |-> favorites]
    /\ UNCHANGED <<clock, written, sop>>
    /\ UNCHANGED <<analyticsVars, downloadVars, searchVars, filterVars>>

\* the page is loaded again: the constructor of the new ExamPortal, part_001 line 26,
\* reads this.favorites = storage.getFavorites()
ReloadPortal ==
    /\ favorites' = getFavorites(ls, clock)
    /\ ls' = getStore(ls, Namespaced("favorites"), clock, {})
    /\ fop' = [op |-> "reload", id |-> 0, before |-> favorites]
    /\ UNCHANGED <<clock, written, sop>>
    /\ UNCHANGED <<analyticsVars, downloadVars, searchVars, filterVars>>

\* storage.addFavorite(itemId) and storage.removeFavorite(itemId), storage.js lines
\* 288-310: the array the call leaves in the envelope of "examportal_favorites"
addFavorite(array, itemId) ==
    IF ~isFavorite(array, itemId) THEN Append(array, itemId) ELSE array
removeFavorite(array, itemId) ==
    IF IndexOfTag(array, itemId) > 0 THEN Spliced(array, IndexOfTag(array, itemId))
    ELSE array

\* this.set("favorites", favorites), made only when the array has changed
SetFavorites(array) ==
    /\ ls' = IF array = getFavorites(ls, clock) THEN ls
             ELSE setItem(ls, Namespaced("favorites"), Envelope(array, 0))
    /\ written' = IF array = getFavorites(ls, clock) THEN written
                  ELSE [written EXCEPT !["favorites"] =
                            [has |-> TRUE, value |-> array, expires |-> 0]]

\* storage.addFavorite(itemId), called by code that uses the StorageManager
AddFavorite(itemId) ==
    /\ SetFavorites(addFavorite(getFavorites(ls, clock), itemId))
    /\ fop' = [op |-> "addFavorite", id |-> itemId, before |-> favorites]
    /\ UNCHANGED <<clock, sop, favorites>>
    /\ UNCHANGED <<analyticsVars, downloadVars, searchVars, filterVars>>

\* storage.removeFavorite(itemId)
RemoveFavorite(itemId) ==
    /\ SetFavorites(removeFavorite(getFavorites(ls, clock), itemId))
    /\ fop' = [op |-> "removeFavorite", id |-> itemId, before |-> favorites]
    /\ UNCHANGED <<clock, sop, favorites>>
    /\ UNCHANGED <<analyticsVars, downloadVars, searchVars, filterVars>>

ResourceIds == 1..MaxFavorites

FvNext ==
    \/ \E resourceId \in ResourceIds : ToggleFavorite(resourceId)
    \/ ReloadPortal
    \/ \E itemId \in ResourceIds : AddFavorite(itemId)
    \/ \E itemId \in ResourceIds : RemoveFavorite(itemId)

ANext ==
    \/ QueueEvent
    \/ QueueEventDisabled
    \/ FlushStart
    \/ \E f \in inflight : SendSuccess(f)
    \/ \E f \in inflight : SendFail(f)
    \/ \E ok \in BOOLEAN : PageUnload(ok)
    \/ \E b \in BOOLEAN : SetEnabled(b)
    \/ Reload

\* the tracker of one page that stays open with analytics left enabled
DlvNext ==
    \/ QueueEvent
    \/ FlushStart
    \/ \E f \in inflight : SendSuccess(f)
    \/ \E f \in inflight : SendFail(f)

\* setInterval(() => this.flushQueue(), 30000) keeps firing; fetch is given
\* AbortSignal.timeout(5000), so every send is answered; the network is one on which
\* sends that keep being made do not fail for ever
TimerFires == WF_vars(FlushStart)
SendAnswered == WF_vars(\E f \in inflight : SendSuccess(f) \/ SendFail(f))
SendsEventuallySucceed == SF_vars(\E f \in inflight : SendSuccess(f))

SNext ==
    \/ GetSessionId
    \/ GetStatus
    \/ QueueEvent
    \/ QueueEventDisabled
    \/ \E b \in BOOLEAN : SetEnabled(b)
    \/ \E d \in {1, SessionTTL} : Tick(d)

\* a subsystem at rest while another one is explored
AnalyticsIdle == AInit /\ FreshIds /\ Len(queue) = 0
DownloadIdle == DInit /\ Len(dmHistory) = 0 /\ Len(smHistory) = 0

FilterIdle == FInit /\ url = <<>>
StorageIdle == StInit

InitAnalytics == AInit /\ ReturningIds /\ DownloadIdle /\ SInit /\ FilterIdle /\ StorageIdle
InitSession == AInit /\ FreshIds /\ DownloadIdle /\ SInit /\ FilterIdle /\ StorageIdle
InitDownload == DInit /\ AnalyticsIdle /\ SInit /\ FilterIdle /\ StorageIdle
InitSearch == SInit /\ AnalyticsIdle /\ DownloadIdle /\ FilterIdle /\ StorageIdle
InitFilter == FInit /\ AnalyticsIdle /\ DownloadIdle /\ SInit /\ StorageIdle
InitApplyFilters == FInitSelected /\ AnalyticsIdle /\ DownloadIdle /\ SInit /\ StorageIdle
InitStorage == StInit /\ AnalyticsIdle /\ DownloadIdle /\ SInit /\ FilterIdle
SpecAnalytics == InitAnalytics /\ [][ANext]_vars
SpecSession == InitSession /\ [][SNext]_vars
SpecDelivery ==
    InitAnalytics /\ [][DlvNext]_vars
        /\ TimerFires /\ SendAnswered /\ SendsEventuallySucceed
SpecDownload == InitDownload /\ [][DNext]_vars
SpecBatch == InitDownload /\ [][BNext]_vars
SpecSearch == InitSearch /\ [][SeNext]_vars
InitRecent == RInit /\ AnalyticsIdle /\ DownloadIdle /\ FilterIdle /\ StorageIdle
SpecRecent == InitRecent /\ [][RNext]_vars
SpecFilter == InitFilter /\ [][FNext]_vars
SpecListeners == InitFilter /\ [][LNext]_vars
SpecPortal == InitFilter /\ [][PNext]_vars
SpecApplyFilters == InitApplyFilters /\ [][FaNext]_vars
SpecStorage == InitStorage /\ [][StNext]_vars
SpecFavorites == InitStorage /\ [][FvNext]_vars
InitStorageFaults == StfInit /\ AnalyticsIdle /\ DownloadIdle /\ SInit /\ FilterIdle
SpecStorageFaults == InitStorageFaults /\ [][StfNext]_vars

\* ======================================================================
\* Properties of the AnalyticsTracker
\* ======================================================================
\* events queueEvent accepted in this behaviour
Accepted == (EventBase + 1)..(nextEvent - 1)

\* C1: every event accepted by queueEvent and not yet confirmed delivered (nor
\* thrown away by setEnabled(false)) is contained in the persisted 'analytics_queue',
\* so that loadQueue on a reload recovers it.
C1_UndeliveredEventsArePersisted ==
    \A e \in Accepted \ (delivered \cup discarded) : e \in Range(loadQueue(persisted))

C3_QueueInEnqueueOrder ==
    \A i, j \in 1..Len(queue) : i < j => queue[i] < queue[j]

\* C4: a queueEvent call that brings the queue to 20 or more events starts a flush of
\* the whole queue inside the call, so fewer than 20 events are queued when it returns.
C4_QueueBelowThresholdAfterQueueEvent ==
    (lastOp.op = "queueEvent" /\ lastOp.accepted)
        => /\ Len(queue) < FlushThreshold
           /\ (lastOp.before + 1 >= FlushThreshold
                 => /\ queue = <<>>
                    /\ \E f \in inflight : /\ Len(f.batch) = lastOp.before + 1
                                           /\ f.during = <<>>)

\* a queueEvent call that found 20 events already queued (a failed flush re-queued them)
C4_Witness ==
    /\ lastOp.op = "queueEvent"
    /\ lastOp.accepted
    /\ lastOp.before >= FlushThreshold

\* ======================================================================
\* Properties of the session identifier
\* ======================================================================
ReadSession ==
    /\ lastOp.op \in {"getSessionId", "getStatus", "queueEvent"}
    /\ lastOp.op = "queueEvent" => lastOp.accepted
    /\ lastOp.prevId.has
    /\ lastOp.prevExpiry.has

\* C5: a getSessionId call made no later than the stored expiry (creation + 4 h)
\* returns the stored identifier and leaves it and its expiry alone; the first call
\* after the expiry returns a new identifier, stored with the expiry now + 4 h.
C5_SessionIdStableUntilExpiry ==
    /\ sessionId.has => /\ sessionExpiry.has
                        /\ sessionExpiry.val = sessionId.val[1] + SessionTTL
    /\ (ReadSession /\ lastOp.at <= lastOp.prevExpiry.val)
          => /\ lastOp.ret = lastOp.prevId.val
             /\ sessionId = lastOp.prevId
             /\ sessionExpiry = lastOp.prevExpiry
    /\ (ReadSession /\ lastOp.at > lastOp.prevExpiry.val)
          => /\ lastOp.ret # lastOp.prevId.val
             /\ sessionId = Stored(lastOp.ret)
             /\ sessionExpiry = Stored(lastOp.at + SessionTTL)

\* getSessionId read after the stored expiry had passed
C5_Witness ==
    /\ ReadSession
    /\ lastOp.op = "getSessionId"
    /\ lastOp.at > lastOp.prevExpiry.val

\* the operations that call getSessionId: getSessionId itself, getStatus, and a
\* queueEvent that accepts its event
CallsGetSessionId(op) ==
    \/ op.op \in {"getSessionId", "getStatus"}
    \/ op.op = "queueEvent" /\ op.accepted

\* C25: the stored session identifier and its expiry change only in a step in which
\* getSessionId runs, and only when no identifier was stored (create) or the stored
\* expiry had passed (regenerate), the new expiry being now + 4 h; a read within the
\* validity period, and every other operation of the tracker, leaves both alone.
C25_SessionChangesOnlyByCreateOrRegenerate ==
    [][ (sessionId' # sessionId \/ sessionExpiry' # sessionExpiry) =>
          /\ CallsGetSessionId(lastOp')
          /\ \/ ~sessionId.has
             \/ sessionExpiry.has /\ now > sessionExpiry.val
          /\ sessionId' = Stored(lastOp'.ret)
          /\ sessionId' # sessionId
          /\ sessionExpiry' = Stored(now + SessionTTL) ]_vars

\* an accepted queueEvent has regenerated the identifier after its expiry, and one
\* within the validity period has left it alone
C25_Witness ==
    /\ lastOp.op = "queueEvent"
    /\ lastOp.accepted
    /\ lastOp.prevId.has
    /\ lastOp.prevExpiry.has
    /\ lastOp.at > lastOp.prevExpiry.val
    /\ sessionId # lastOp.prevId

\* C26: while analytics is disabled a queueEvent call is rejected, and the in-memory
\* queue is empty and no 'analytics_queue' is persisted, whatever else completes in
\* the meantime.
C26_DisabledQueueStaysEmpty ==
    ~enabled =>
        /\ lastOp.op = "queueEvent" => ~lastOp.accepted
        /\ queue = <<>>
        /\ ~persisted.has

\* ======================================================================
\* Properties of downloadPDF and of the download histories
\* ======================================================================
\* C6: when every attempt of a downloadPDF call fails, the call makes exactly
\* maxRetries + 1 = 4 attempts (retryCount 0..3), then invokes onError exactly once and
\* resolves to {success: false}; the retry counter bounds the sequence at every step.
C6_FailingDownloadMakesFourAttempts ==
    /\ dl.retryCount <= MaxRetries
    /\ dl.attempts <= MaxRetries + 1
    /\ dl.active => dl.attempts = dl.retryCount
    /\ (~dl.active /\ dl.attempts > 0 /\ dl.failures = dl.attempts)
          => /\ dl.attempts = MaxRetries + 1
             /\ dl.result = "fail"
             /\ dl.errors = (IF dl.callbacks THEN 1 ELSE 0)
    /\ dl.result = "fail" => dl.failures = dl.attempts

\* a downloadPDF call with callbacks has ended after all its attempts failed
C6_Witness ==
    /\ ~dl.active
    /\ dl.callbacks
    /\ dl.result = "fail"
    /\ dl.errors = 1

Descending(s) == \A i \in 1..(Len(s) - 1) : s[i] > s[i + 1]
NewerThanDropped(s, d) == \A i \in 1..Len(s) : s[i] > d

\* C8: each download history is newest first and within its cap (100 for the
\* StorageManager's and the ExamPortal's, 1000 for the DownloadManager's), and the cap
\* only ever drops entries older than every entry kept.
C8_HistoriesCappedNewestFirst ==
    /\ Len(smHistory) <= SmHistoryCap
    /\ Len(epHistory) <= EpHistoryCap
    /\ Len(dmHistory) <= DmHistoryCap
    /\ Descending(smHistory) /\ Descending(epHistory) /\ Descending(dmHistory)
    /\ NewerThanDropped(smHistory, dropped.sm)
    /\ NewerThanDropped(epHistory, dropped.ep)
    /\ NewerThanDropped(dmHistory, dropped.dm)
    /\ dmHistory # <<>> => dmHistory[1] = stamp.dm
    /\ smHistory # <<>> => smHistory[1] = stamp.sm
    /\ epHistory # <<>> => epHistory[1] = stamp.ep

\* every one of the three histories has dropped an entry at its cap
C8_Witness ==
    /\ dropped.sm > 0 /\ Len(smHistory) = SmHistoryCap
    /\ dropped.ep > 0 /\ Len(epHistory) = EpHistoryCap
    /\ dropped.dm > 0 /\ Len(dmHistory) = DmHistoryCap

\* ======================================================================
\* Properties of SearchEngine.search
\* ======================================================================
Ids(items) == { items[k].id : k \in 1..Len(items) }

\* a search of the indexed set with a non-empty query and no limit
SearchedWith(filtersGiven) ==
    /\ scall.active
    /\ isIndexed
    /\ scall.query # <<>>
    /\ scall.limit = NoLimit
    /\ scall.filters.given = filtersGiven

\* the item equals the selection on every equality axis whose value is not 'all'
EqualsOnConcreteAxes(item, selection) ==
    /\ selection.category # All => item.category = selection.category
    /\ selection.grade # All => item.grade = selection.grade
    /\ selection.year # All => item.year = selection.year
    /\ selection.subject # All => item.subject = selection.subject

\* C9: search(query, {filters: S}) returns exactly the query-matching items that equal
\* S on every equality axis whose value is not 'all'; with every axis 'all' it returns
\* every query-matching item.
C9_AllAxisExcludesNothing ==
    SearchedWith(TRUE) =>
        scall.result = SelectSeq(search(scall.query, NoFilters, NoLimit, FALSE),
                                 LAMBDA item : EqualsOnConcreteAxes(item, scall.filters))

\* the whitespace-separated words of a text
WordsOf(t) == { w \in Range(split(t)) : w # <<>> }

\* the query (trimmed, case ignored) is a substring of the title, the description, the
\* subject or a tag, or one of its words occurs in the search text
QueryMatchesItem(item, query) ==
    LET q == trim(toLowerCase(query))
    IN  \/ includes(toLowerCase(item.title), q)
        \/ includes(toLowerCase(item.description), q)
        \/ includes(toLowerCase(item.subject), q)
        \/ \E k \in 1..Len(item.tags) : includes(toLowerCase(item.tags[k]), q)
        \/ \E w \in WordsOf(q) : includes(item.searchText, w)

\* C10: for a non-empty query, search without filters returns an indexed item if and
\* only if the query is a substring of its title, description, subject or one of its
\* tags, or a whitespace-separated word of the query occurs in its search text.
C10_ReturnedIffQueryMatches ==
    SearchedWith(FALSE) =>
        \A k \in 1..Len(searchIndex) :
            (searchIndex[k].id \in Ids(scall.result))
                <=> QueryMatchesItem(searchIndex[k], scall.query)

\* the identifiers of a list, in its order
IdSeq(items) == [k \in 1..Len(items) |-> items[k].id]

\* C11: search with an empty query returns the empty list unless returnAll is set, and
\* with returnAll the resource list last handed to indexResources, in index order,
\* whatever filters and limit come with it; before any indexResources call it returns
\* the empty list in both cases.
C11_EmptyQueryReturnsAllOrNothing ==
    (scall.active /\ scall.query = <<>>) =>
        /\ ~scall.returnAll => scall.result = <<>>
        /\ ~isIndexed => scall.result = <<>>
        /\ (scall.returnAll /\ isIndexed) =>
              /\ scall.result = fullResources
              /\ IdSeq(scall.result) = IdSeq(searchIndex)

\* an empty query with returnAll and a limit smaller than the indexed list
C11_Witness ==
    /\ scall.active /\ scall.query = <<>> /\ scall.returnAll
    /\ isIndexed
    /\ scall.limit = 1
    /\ Len(scall.result) = 2

\* a search of the indexed set with a non-empty query
Searched == scall.active /\ isIndexed /\ scall.query # <<>>

\* the position in the index of the entry with the identifier
IndexOf(id) == CHOOSE k \in 1..Len(searchIndex) : searchIndex[k].id = id

\* the words of a text, in order and with repetitions
WordSeq(t) == SelectSeq(split(t), LAMBDA w : w # <<>>)

\* the score as documented: +100 title, +50 subject, +30 description, +20 any tag,
\* +10 for each query word found in the search text
Score(item, query) ==
    LET q == trim(toLowerCase(query))
        words == WordSeq(q)
    IN  (IF includes(toLowerCase(item.title), q) THEN 100 ELSE 0)
      + (IF includes(toLowerCase(item.subject), q) THEN 50 ELSE 0)
      + (IF includes(toLowerCase(item.description), q) THEN 30 ELSE 0)
      + (IF \E k \in 1..Len(item.tags) : includes(toLowerCase(item.tags[k]), q)
         THEN 20 ELSE 0)
      + 10 * Cardinality({ k \in 1..Len(words) : includes(item.searchText, words[k]) })

\* C12: the items search returns are in non-increasing order of relevance score
\* (+100 title, +50 subject, +30 description, +20 any tag, +10 per query word found in
\* the search text), and two items of equal score are in the order they have in the
\* index.
C12_RankedByScoreStable ==
    Searched =>
        \A i, j \in 1..Len(scall.result) :
            i < j =>
                LET a == searchIndex[IndexOf(scall.result[i].id)]
                    b == searchIndex[IndexOf(scall.result[j].id)]
                IN  /\ Score(a, scall.query) >= Score(b, scall.query)
                    /\ Score(a, scall.query) = Score(b, scall.query)
                          => IndexOf(a.id) < IndexOf(b.id)

\* the ranking moved the second index entry in front of the first
C12_Witness ==
    /\ Searched
    /\ Len(scall.result) = 2
    /\ scall.result[1].id = searchIndex[2].id
    /\ Score(searchIndex[2], scall.query) > Score(searchIndex[1], scall.query)

\* the result is the first `limit` records of the same search made without a limit
FirstOfUnlimited ==
    LET unlimited == search(scall.query, scall.filters, NoLimit, scall.returnAll)
    IN  /\ Len(scall.result) <= scall.limit
        /\ scall.result = SubSeq(unlimited, 1, MinOf({scall.limit, Len(unlimited)}))

\* every returned record is the resource of the indexed list with the identifier of a
\* matched index entry, and none is returned twice
HydratedOnce ==
    /\ \A i \in 1..Len(scall.result) :
          \E k \in 1..Len(searchIndex) :
              /\ searchIndex[k].id = scall.result[i].id
              /\ scall.result[i] = fullResources[k]
              /\ Matches(searchIndex[k], trim(toLowerCase(scall.query)))
    /\ \A i, j \in 1..Len(scall.result) : i # j => scall.result[i].id # scall.result[j].id

CarriesTags(item, tags) == Range(tags) \subseteq Range(item.tags)

\* the items of L the selection keeps
KeptOf(L, S) ==
    { k \in 1..Len(L) : EqualsOnConcreteAxes(L[k], S) /\ CarriesTags(L[k], S.tags) }

\* C14: applyFilters(L, S) returns exactly the items of L, none added and none
\* duplicated, that equal S on every axis of category, grade, year and subject whose
\* value is not 'all' and that contain every tag of S.tags, in the order of S.sortBy.
C14_ExactlyTheMatchingItems ==
    fcall.op = "applyFilters" =>
        LET L == fcall.resources
            S == activeFilters
            out == fcall.result
        IN  /\ Range(out) = { L[k] : k \in KeptOf(L, S) }
            /\ Len(out) = Cardinality(KeptOf(L, S))
            /\ \A i, j \in 1..Len(out) : i < j => compareBy(out[i], out[j], S.sortBy) <= 0

\* a selection with a concrete axis and a tag kept two items, dropped another and
\* changed the order of those it kept
C14_Witness ==
    /\ fcall.op = "applyFilters"
    /\ activeFilters.grade # All
    /\ activeFilters.tags # <<>>
    /\ Len(fcall.result) = 2
    /\ Len(fcall.resources) = 3
    /\ fcall.result # SelectSeq(fcall.resources, LAMBDA item : item \in Range(fcall.result))

\* C15: applyFilters is idempotent: applying it with the same selection to its own
\* output gives the same sequence, element for element, also when items tie on the
\* sort key.
C15_ApplyFiltersIdempotent ==
    fcall.op = "applyFilters" =>
        applyFilters(fcall.result, activeFilters) = fcall.result

\* the output holds two different items that tie on the sort key
C15_Witness ==
    /\ fcall.op = "applyFilters"
    /\ \E i, j \in 1..Len(fcall.result) :
          /\ i < j
          /\ compareBy(fcall.result[i], fcall.result[j], activeFilters.sortBy) = 0
          /\ compareBy(fcall.result[j], fcall.result[i], activeFilters.sortBy) = 0
    /\ \E i, j \in 1..Len(fcall.result) :
          compareBy(fcall.result[i], fcall.result[j], activeFilters.sortBy) < 0

\* ======================================================================
\* Properties of the FilterManager's URL
\* ======================================================================
\* initFromURL re-read a URL that the mutation `op` had just written
ReparsedAfter(ops) == fcall.op = "initFromURL" /\ fcall.prev \in ops

\* C16: after setFilter or setFilters gave an equality axis a concrete value,
\* initFromURL on the URL that mutation wrote reproduces the selection: the axis keeps
\* the value and every other axis, the sort key and the tags are as before re-parsing.
C16_AxisRoundTrips ==
    (ReparsedAfter({"setFilter", "setFilters"}) /\ fcall.key \in EqualityAxes
        /\ fcall.value # All)
        => /\ activeFilters[fcall.key] = fcall.value
           /\ activeFilters = fcall.before

\* the value of the query parameter `sort`, empty when the URL does not have it
SortParam == paramsGet(parseParams(url), "sort")

\* C17: a sort key other than 'popular' is written to the URL under the parameter
\* `sort`, which initFromURL reads, so that initFromURL on the written URL restores the
\* sort key; for 'popular' the parameter is left out.
C17_SortKeyRoundTrips ==
    /\ fcall.op # "none"
          => SortParam = (IF activeFilters.sortBy = Popular THEN <<>> ELSE activeFilters.sortBy)
    /\ ReparsedAfter({"setFilter", "setFilters", "toggleTag", "resetFilters", "initFromURL"})
          => activeFilters.sortBy = fcall.before.sortBy

\* ======================================================================
\* Properties of the StorageManager
\* ======================================================================
\* C18: after clearExpired has returned, no key of the namespace is left whose
\* envelope's expiry has passed or whose text does not parse, however many such keys
\* there were and wherever they were stored.
C18_ClearExpiredLeavesNothingStale ==
    sop.op = "clearExpired" =>
        \A i \in 1..Len(ls) : ls[i].key.prefixed => ~Stale(ls[i], sop.at)

\* the last successful set of the key that get has just read
LastSet == written[sop.key.name]

\* C19: after a successful set(key, v, {expires}) and until another write to the key,
\* get(key, d) returns v while the time has not passed the envelope's expiry (always
\* without expiry); the first get after the expiry removes the entry and returns d,
\* as does every later get.
C19_GetReturnsValueUntilExpiry ==
    (sop.op = "get" /\ LastSet.has) =>
        IF LastSet.expires = 0 \/ sop.at <= LastSet.expires
        THEN /\ sop.ret = LastSet.value
             /\ getItem(ls, sop.key) = Stored(Envelope(LastSet.value, LastSet.expires))
        ELSE /\ sop.ret = DefaultValue
             /\ ~getItem(ls, sop.key).has

\* a get after the expiry of the value set has passed
C19_Witness ==
    /\ sop.op = "get"
    /\ LastSet.has
    /\ LastSet.expires # 0
    /\ sop.at > LastSet.expires
    /\ sop.ret = DefaultValue

\* the text a set call writes
TextOf(name) == Envelope(written[name].value, written[name].expires)

\* C20: when the write of set raises a quota-exceeded error, clearExpired runs exactly
\* once and the write is retried exactly once, set returning true iff the retry
\* succeeds; after any other write error there is no cleanup and no retry and set
\* returns false.
C20_QuotaCleansAndRetriesOnce ==
    sop.op = "set" =>
        /\ sop.first = "QuotaExceededError" =>
              /\ sop.cleanups = 1
              /\ sop.attempts = 2
              /\ (sop.ret = 1) <=> (sop.second = "ok")
              /\ sop.second # "ok" => ls = clearExpired(sop.before, sop.at, sop.broken).store
              /\ sop.second = "ok" =>
                    ls = setItem(clearExpired(sop.before, sop.at, sop.broken).store, sop.key,
                                 TextOf(sop.key.name))
        /\ sop.first = "SecurityError" =>
              /\ sop.cleanups = 0
              /\ sop.attempts = 1
              /\ sop.ret = 0
              /\ ls = sop.before
        /\ sop.first = "ok" =>
              /\ sop.cleanups = 0
              /\ sop.attempts = 1
              /\ sop.ret = 1

\* a quota error whose cleanup removed an entry, after which the retry succeeded
C20_Witness ==
    /\ sop.op = "set"
    /\ sop.first = "QuotaExceededError"
    /\ sop.second = "ok"
    /\ sop.ret = 1
    /\ Len(clearExpired(sop.before, sop.at, sop.broken).store) < Len(sop.before)
\* C21: no operation of the StorageManager lets an error of the browser storage leave
\* it: whichever accesses raise, set, get, remove, clear, clearExpired, keys and
\* getUsage return a value to their caller.
C21_NoStorageOperationThrows == ~sop.threw

\* ======================================================================
\* Properties of the batch download and of one downloadPDF call
\* ======================================================================
\* what downloadMultipleAsZip did, the attempts of downloadPDF left out
Steps(log) == SelectSeq(log, LAMBDA e : e.ev # "attempt")

\* file after file: its download starts and ends, and a pause follows unless it is
\* the last file
RECURSIVE ScheduleFrom(_, _)
ScheduleFrom(files, i) ==
    IF i > Len(files) THEN <<>>
    ELSE <<Event("start", files[i]), Event("end", files[i])>>
         \o (IF i < Len(files) THEN <<Event("pause", files[i])>> ELSE <<>>)
         \o ScheduleFrom(files, i + 1)

IsPrefix(a, b) == Len(a) <= Len(b) /\ a = SubSeq(b, 1, Len(a))

AttemptsFor(log, file) ==
    Cardinality({ k \in 1..Len(log) : log[k] = Event("attempt", file) })

\* C22: downloadMultipleAsZip takes the files one at a time in list order: what it has
\* done so far is a beginning of "start, end, pause" per file without a pause after
\* the last; every attempt of downloadPDF lies between the start and the end of its
\* own file, a failed file having used all its attempts; no download runs during a
\* pause; and the call ends with one result per file in input order, the count shown
\* being the number of successful results.
C22_FilesOneAtATime ==
    LET log == zipCall.log
    IN  /\ IsPrefix(Steps(log), ScheduleFrom(zipCall.files, 1))
        /\ \A k \in 1..Len(log) :
              log[k].ev = "attempt" =>
                \E j \in 1..(k - 1) :
                    /\ log[j] = Event("start", log[k].file)
                    /\ \A m \in (j + 1)..k : log[m].ev = "attempt"
        /\ dl.active => zipCall.phase = "downloading"
        /\ \A i \in 1..Len(zipCall.results) :
              /\ zipCall.results[i].file = zipCall.files[i]
              /\ AttemptsFor(log, zipCall.files[i]) \in 1..(MaxRetries + 1)
              /\ ~zipCall.results[i].success =>
                    AttemptsFor(log, zipCall.files[i]) = MaxRetries + 1
        /\ zipCall.phase = "done" =>
              /\ Steps(log) = ScheduleFrom(zipCall.files, 1)
              /\ Len(zipCall.results) = Len(zipCall.files)
              /\ zipCall.shown = SuccessCount(zipCall.results)

\* a batch of at least two files has ended, the first file having failed for good and
\* the last one having been saved
C22_Witness ==
    /\ zipCall.phase = "done"
    /\ Len(zipCall.files) >= 2
    /\ ~zipCall.results[1].success
    /\ zipCall.results[Len(zipCall.files)].success
    /\ zipCall.shown < Len(zipCall.files)

\* C27: one downloadPDF call, its retries included, clicks the anchor at most once and
\* invokes onComplete at most once, whichever step of an attempt raises.
C27_OneClickOneCompletion ==
    /\ dl.clicks <= 1
    /\ dl.completes <= 1

\* ======================================================================
\* Properties of the recent searches
\* ======================================================================
NoDuplicates(s) == \A i, j \in 1..Len(s) : s[i] = s[j] => i = j
Without(s, q) == SelectSeq(s, LAMBDA x : x # q)
\* the sequence the last call wrote and the query it stored (addSearch stores the
\* trimmed query), if it stored one
WrittenSearches == IF rcall.op = "addSearch" THEN recentSearches ELSE searchHistory
StoredQuery == IF rcall.op = "addSearch" THEN trim(rcall.query) ELSE rcall.query
Accepts ==
    /\ rcall.op \in {"addSearch", "saveSearch"}
    /\ rcall.query # <<>>
    /\ Len(StoredQuery) >= 2

TimesInvoked(id) == Cardinality({ k \in 1..Len(notice.invoked) : notice.invoked[k] = id })
MutationOps == {"setFilter", "setFilters", "resetFilters", "toggleTag"}

\* C24: a mutation has invoked, before returning, every listener that was registered
\* when it was called and is still registered, once; no listener twice and none that
\* was not registered; in registration order; with the updated selection.
C24_EveryListenerNotifiedOnce ==
    fcall.op \in MutationOps =>
        /\ \A id \in Range(notice.registered) :
              /\ TimesInvoked(id) <= 1
              /\ id \in ListenerIds(filterCallbacks) => TimesInvoked(id) = 1
        /\ Range(notice.invoked) \subseteq Range(notice.registered)
        /\ \A i, j \in 1..Len(notice.invoked) :
              i < j => notice.invoked[i] < notice.invoked[j]
        /\ notice.selection = activeFilters

\* the callbacks of the controller that are registered
ControllerListeners ==
    { k \in 1..Len(filterCallbacks) : filterCallbacks[k].controller }

\* C29: once init has run on a page with the filter container, one callback of the
\* controller is registered, and a mutation reloads the lists once and queues one
\* 'filter' event for every axis that is not at its default, none for the others.
C29_OneControllerListener ==
    (portal.initialised /\ portal.container) =>
        /\ Cardinality(ControllerListeners) = 1
        /\ fcall.op \in MutationOps =>
              /\ notice.reloads = 1
              /\ \A axis \in FilterKeys :
                    notice.events[axis] =
                        (IF activeFilters[axis] # DefaultFilters[axis] THEN 1 ELSE 0)

\* ======================================================================
\* Properties of the favourites
\* ======================================================================
\* C28: after a reload isFavorite(id) is true for exactly the identifiers that were
\* favourites before it.
C28_FavoritesSurviveReload ==
    fop.op = "reload" =>
        \A resourceId \in ResourceIds :
            isFavorite(favorites, resourceId) <=> isFavorite(fop.before, resourceId)

\* ======================================================================
\* Delivery of the queued events
\* ======================================================================
\* the events this page has handed to queueEvent, all of them accepted (enabled)
AcceptedEvents == (EventBase + 1)..(nextEvent - 1)
EventIds == (EventBase + 1)..(EventBase + MaxEvents)

\* where an accepted event is while it has not been delivered
Pending(e) == e \in Range(queue) \cup InFlightEvents

\* C30: with analytics enabled, the page open, the flush timer firing and sends that
\* eventually succeed, an accepted event is at every moment in the queue, in a send
\* or delivered, and it is eventually delivered.
C30_AcceptedEventsDelivered ==
    /\ [](\A e \in AcceptedEvents : Pending(e) \/ e \in delivered)
    /\ \A e \in EventIds : (e \in AcceptedEvents) ~> (e \in delivered)

\* the first event went out alone and its send failed, the third joined it in the
\* queue, and the two have now been delivered by one successful send
C30_Witness ==
    /\ lastOp.op = "sendSuccess"
    /\ lastOp.batch = <<EventBase + 1, EventBase + 3>>
    /\ AcceptedEvents \subseteq delivered
====
